---- MODULE Spec2Model ----
(***************************************************************************)
(* Model of the pt-onia.app edge worker (src/cloudflare-worker.js, the     *)
(* current version of the worker, lines 860-1597): the short-link store    *)
(* (create, update, resolve, redirect), the edge cache of redirects, the   *)
(* telemetry aggregate (post, get, reset) and the in-memory rate limiter.  *)
(*                                                                         *)
(* Every handler is split at its awaits on shared state: one action is the *)
(* code that runs between two such awaits.  Requests run in the slots of   *)
(* Procs, so the steps of different requests interleave as the awaits of   *)
(* the worker allow.                                                       *)
(***************************************************************************)
EXTENDS Integers, Sequences, FiniteSets, TLC

None == "none"

\* ------------------------------------------------------------------------
\* Program constants
\* ------------------------------------------------------------------------
DOMAIN_ == "https://pt-onia.app"
APP_ORIGIN == DOMAIN_
SHORT_CODE_LENGTH == 6
CHARS ==
  {"A","B","C","D","E","F","G","H","J","K","L","M","N","P","Q","R","S","T",
   "U","V","W","X","Y","Z","a","b","c","d","e","f","g","h","j","k","m","n",
   "p","q","r","s","t","u","v","w","x","y","z","2","3","4","5","6","7","8","9"}
LowerChars ==
  {"a","b","c","d","e","f","g","h","i","j","k","l","m","n","o","p","q","r",
   "s","t","u","v","w","x","y","z"}
MAX_SHORTEN_BODY_BYTES == 32768
DEV_ALLOWED_ORIGINS ==
  {"http://localhost:8787", "http://127.0.0.1:8787",
   "http://localhost:5173", "http://127.0.0.1:5173"}
REDIRECT_CACHE_SECONDS == 300
RATE_LIMIT_WINDOW_MS == 60000
PRUNE_THRESHOLD == 10000
\* Variant: one more round of the loop.
ElevenWordAttempts == 10 + 1
MAX_WORD_ATTEMPTS == 10
RETRY_ATTEMPTS == 2
RATE_LIMITS ==
  [telemetry |-> 30, shortenCreate |-> 5, shortenUpdate |-> 20]

\* ------------------------------------------------------------------------
\* Bounds of the model
\* ------------------------------------------------------------------------
\* Number of request slots: requests that can be in flight at the same time.
NumProcs == 2
\* Number of requests the worker receives in one behaviour when requests
\* overlap, and when they arrive one after another.
MaxRequests == 3
MaxSeqRequests == 4

Procs == 1..NumProcs

\* ------------------------------------------------------------------------
\* Strings
\* ------------------------------------------------------------------------
CharAt(s, i) == SubSeq(s, i, i)

StartsWith(s, pre) ==
  /\ Len(s) >= Len(pre)
  /\ SubSeq(s, 1, Len(pre)) = pre

\* Position of the first character of s at or after index from that is in
\* the set stops, or Len(s) + 1 when there is none.
RECURSIVE FirstOf(_, _, _)
FirstOf(s, stops, from) ==
  IF from > Len(s) THEN Len(s) + 1
  ELSE IF CharAt(s, from) \in stops THEN from
  ELSE FirstOf(s, stops, from + 1)

\* Position of the last occurrence of character ch in s, 0 when there is none.
RECURSIVE LastIndexOf(_, _, _)
LastIndexOf(s, ch, from) ==
  IF from < 1 THEN 0
  ELSE IF CharAt(s, from) = ch THEN from
  ELSE LastIndexOf(s, ch, from - 1)

AllIn(s, alphabet) == \A i \in 1..Len(s) : CharAt(s, i) \in alphabet

\* ------------------------------------------------------------------------
\* Short codes
\* ------------------------------------------------------------------------
\* SHORT_CODE_REGEX: ^[CHARS]{6}$
SHORT_CODE_REGEX(code) ==
  /\ Len(code) = SHORT_CODE_LENGTH
  /\ AllIn(code, CHARS)

\* One [a-z]{3,8} group of WORD_CODE_REGEX.
WordGroup(s) ==
  /\ Len(s) >= 3
  /\ Len(s) <= 8
  /\ AllIn(s, LowerChars)

\* WORD_CODE_REGEX: ^[a-z]{3,8}-[a-z]{3,8}-[a-z]{3,8}$
WORD_CODE_REGEX(code) ==
  LET h1 == FirstOf(code, {"-"}, 1)
      h2 == FirstOf(code, {"-"}, h1 + 1)
  IN  /\ h1 <= Len(code)
      /\ h2 <= Len(code)
      /\ WordGroup(SubSeq(code, 1, h1 - 1))
      /\ WordGroup(SubSeq(code, h1 + 1, h2 - 1))
      /\ WordGroup(SubSeq(code, h2 + 1, Len(code)))

isValidShortCode(code) == SHORT_CODE_REGEX(code) \/ WORD_CODE_REGEX(code)

\* generateWordCode: three words joined by hyphens.  The draws of
\* Math.random the model considers are those that give these codes.
WordDraws == { <<"amber", "coral", "nova">>, <<"dew", "nova", "dew">> }

generateWordCode(draw) == draw[1] \o "-" \o draw[2] \o "-" \o draw[3]

\* generateHexFallbackCode: four random bytes, each as two hex digits.
HexByte(b) ==
  LET digit(n) == CASE n = 0 -> "0" [] n = 1 -> "1" [] n = 2 -> "2"
                    [] n = 3 -> "3" [] n = 4 -> "4" [] n = 5 -> "5"
                    [] n = 6 -> "6" [] n = 7 -> "7" [] n = 8 -> "8"
                    [] n = 9 -> "9" [] n = 10 -> "a" [] n = 11 -> "b"
                    [] n = 12 -> "c" [] n = 13 -> "d" [] n = 14 -> "e"
                    [] OTHER -> "f"
  IN  digit(b \div 16) \o digit(b % 16)

\* The draws of crypto.getRandomValues the model considers.
HexDraws == { <<161, 178, 195, 212>> }

generateHexFallbackCode(bytes) ==
  HexByte(bytes[1]) \o HexByte(bytes[2]) \o HexByte(bytes[3]) \o HexByte(bytes[4])

\* ------------------------------------------------------------------------
\* URLs
\* ------------------------------------------------------------------------
\* new URL(value).origin for the http(s) URLs of the model: the scheme, and
\* the host and port of the authority (the text between "://" and the first
\* "/", "?" or "#") without its userinfo and without the default port.
\* None when new URL throws (the value has no scheme).
UrlOrigin(value) ==
  LET scheme == IF StartsWith(value, "https://") THEN "https"
                ELSE IF StartsWith(value, "http://") THEN "http"
                ELSE None
      start == Len(scheme) + 4
      stop == FirstOf(value, {"/", "?", "#"}, start)
      authority == SubSeq(value, start, stop - 1)
      at == LastIndexOf(authority, "@", Len(authority))
      hostport == SubSeq(authority, at + 1, Len(authority))
      colon == FirstOf(hostport, {":"}, 1)
      host == SubSeq(hostport, 1, colon - 1)
      port == SubSeq(hostport, colon + 1, Len(hostport))
      defaultPort == IF scheme = "https" THEN "443" ELSE "80"
  IN  IF scheme = None \/ Len(host) = 0 THEN None
      ELSE IF port = "" \/ port = defaultPort THEN scheme \o "://" \o host
      ELSE scheme \o "://" \o host \o ":" \o port

\* Variant: the URL is accepted when its text starts with the service origin.
isValidAppUrlByPrefix(value) == StartsWith(value, DOMAIN_)

isValidAppUrl(value) == UrlOrigin(value) = DOMAIN_

\* hashUrl: the SHA-256 digest of the URL in hex.  The digest is a function
\* of the URL alone and no two URLs of the model collide.
hashUrl(url) == "sha256(" \o url \o ")"

\* ------------------------------------------------------------------------
\* Key-value namespaces, the cache and the rate-limit table are maps whose
\* domain is the set of keys present; a missing key reads as None (null).
\* ------------------------------------------------------------------------
EmptyMap == [k \in {} |-> None]

MapGet(m, k) == IF k \in DOMAIN m THEN m[k] ELSE None

MapPut(m, k, v) == [x \in (DOMAIN m) \cup {k} |-> IF x = k THEN v ELSE m[x]]

MapDelete(m, k) == [x \in (DOMAIN m) \ {k} |-> m[x]]

\* Variant: the code is left out of the key.
CodeKeyWithoutCode(code) == "code:"

CodeKey(code) == "code:" \o code
HashKey(digest) == "hash:" \o digest

\* One operation of a Promise.all of store writes, applied to a namespace.
ApplyOp(kv, o) ==
  IF o.op = "put" THEN MapPut(kv, o.key, o.value) ELSE MapDelete(kv, o.key)

\* ------------------------------------------------------------------------
\* Origin guard
\* ------------------------------------------------------------------------
getAllowedOrigin(h) ==
  IF h.Origin = None THEN APP_ORIGIN
  ELSE IF h.Origin = APP_ORIGIN \/ h.Origin \in DEV_ALLOWED_ORIGINS THEN h.Origin
  ELSE None

requestLooksSameOrigin(h) ==
  \/ h.Origin # None /\ (h.Origin = APP_ORIGIN \/ h.Origin \in DEV_ALLOWED_ORIGINS)
  \/ h.SecFetchSite = "same-origin"
  \/ h.SecFetchSite = "same-site"

\* request.headers.get('CF-Connecting-IP') || 'unknown'
ClientIp(h) == IF h.IP = None THEN "unknown" ELSE h.IP

\* ------------------------------------------------------------------------
\* Rate limiter
\* ------------------------------------------------------------------------
\* Variant: the check that reaches the ceiling is rejected already.
isRateLimitedAtCeiling(m, t, ip, bucket) ==
  LET key == bucket \o ":" \o ip
      stale == key \notin DOMAIN m \/ t - m[key].windowStart > RATE_LIMIT_WINDOW_MS
      entry0 == IF stale THEN [windowStart |-> t, count |-> 0] ELSE m[key]
      entry == [entry0 EXCEPT !.count = @ + 1]
  IN  [map |-> MapPut(m, key, entry), limited |-> entry.count >= RATE_LIMITS[bucket]]

\* Variant: one entry per bucket, shared by every client.
isRateLimitedPerBucket(m, t, ip, bucket) ==
  LET key == bucket
      stale == key \notin DOMAIN m \/ t - m[key].windowStart > RATE_LIMIT_WINDOW_MS
      entry0 == IF stale THEN [windowStart |-> t, count |-> 0] ELSE m[key]
      entry == [entry0 EXCEPT !.count = @ + 1]
  IN  [map |-> MapPut(m, key, entry), limited |-> entry.count > RATE_LIMITS[bucket]]

\* Variant: pruning removes the entries whose window is live.
isRateLimitedPrunesLive(m, t, ip, bucket) ==
  LET key == bucket \o ":" \o ip
      stale == key \notin DOMAIN m \/ t - m[key].windowStart > RATE_LIMIT_WINDOW_MS
      entry0 == IF stale THEN [windowStart |-> t, count |-> 0] ELSE m[key]
      entry == [entry0 EXCEPT !.count = @ + 1]
      m1 == MapPut(m, key, entry)
      m2 == IF Cardinality(DOMAIN m1) > PRUNE_THRESHOLD
            THEN [k \in {x \in DOMAIN m1 :
                          t - m1[x].windowStart > RATE_LIMIT_WINDOW_MS} |-> m1[k]]
            ELSE m1
  IN  [map |-> m2, limited |-> entry.count > RATE_LIMITS[bucket]]

\* isRateLimited(ip, bucket) at time t on table m: the table it leaves and
\* its result.
isRateLimited(m, t, ip, bucket) ==
  LET key == bucket \o ":" \o ip
      stale == key \notin DOMAIN m \/ t - m[key].windowStart > RATE_LIMIT_WINDOW_MS
      entry0 == IF stale THEN [windowStart |-> t, count |-> 0] ELSE m[key]
      entry == [entry0 EXCEPT !.count = @ + 1]
      m1 == MapPut(m, key, entry)
      m2 == IF Cardinality(DOMAIN m1) > PRUNE_THRESHOLD
            THEN [k \in {x \in DOMAIN m1 :
                          ~(t - m1[x].windowStart > RATE_LIMIT_WINDOW_MS)} |-> m1[k]]
            ELSE m1
  IN  [map |-> m2, limited |-> entry.count > RATE_LIMITS[bucket]]

\* ------------------------------------------------------------------------
\* Telemetry aggregate
\* ------------------------------------------------------------------------
TELEMETRY_KV_KEY == "counters_v1"
ALLOWED_FLAT_KEYS ==
  {"totalSessions", "totalActiveMs", "sessionsOver5Min",
   "saveClicks", "saveUsedSessions",
   "units_hours", "units_days",
   "customTypeCreateAttempts", "customTypeCreatedCount",
   "opportunityClickCount", "clearAllSelectionsCount",
   "returningVisitsCount", "errorsCaughtCount"}
ALLOWED_NESTED_GROUPS == {"theme", "quickSelect"}
RESERVED_OBJECT_KEYS == {"__proto__", "prototype", "constructor"}
MAX_TELEMETRY_PAYLOAD_CHARS == 32768
\* Variant: the cap lets one more key in.
OneMoreNestedKey == 100 + 1
MAX_NESTED_KEYS_PER_GROUP == 100
MAX_DELTA == 1000000000
MAX_METRIC_KEY_LENGTH == 50
MIN_ADMIN_TOKEN_LENGTH == 16

\* The characters of \w.
WordChars ==
  LowerChars \cup
  {"A","B","C","D","E","F","G","H","I","J","K","L","M","N","O","P","Q","R",
   "S","T","U","V","W","X","Y","Z","0","1","2","3","4","5","6","7","8","9","_"}

\* The aggregate stored under counters_v1, as the object its JSON text
\* parses to: the flat counters, and the counters of each nested group.
EmptyCounters == [flat |-> EmptyMap, nested |-> EmptyMap]

\* counters[key] || 0
Count(m, key) == IF key \in DOMAIN m THEN m[key] ELSE 0

\* Number(delta) of a payload entry: whether it is finite, and its value.
Delta(v) == [finite |-> TRUE, value |-> v]
NotANumber == [finite |-> FALSE, value |-> 0]

\* !Number.isFinite(d) || d < 0 || d > 1e9 is false
AcceptedDelta(d) == d.finite /\ d.value >= 0 /\ d.value <= MAX_DELTA

isSafeNestedMetricKey(key) ==
  /\ Len(key) <= MAX_METRIC_KEY_LENGTH
  /\ Len(key) >= 1
  /\ AllIn(key, WordChars \cup {"-"})
  /\ key \notin RESERVED_OBJECT_KEYS

\* Variant: the delta replaces the stored value.
RECURSIVE ApplyFlatOverwrite(_, _, _)
ApplyFlatOverwrite(flat, entries, i) ==
  IF i > Len(entries) THEN flat
  ELSE LET e == entries[i]
       IN  IF e.key \in ALLOWED_FLAT_KEYS /\ AcceptedDelta(e.delta)
           THEN ApplyFlatOverwrite(MapPut(flat, e.key, e.delta.value), entries, i + 1)
           ELSE ApplyFlatOverwrite(flat, entries, i + 1)

\* The loop over Object.entries(increments), from entry i on.
RECURSIVE ApplyFlat(_, _, _)
ApplyFlat(flat, entries, i) ==
  IF i > Len(entries) THEN flat
  ELSE LET e == entries[i]
       IN  IF e.key \in ALLOWED_FLAT_KEYS /\ AcceptedDelta(e.delta)
           THEN ApplyFlat(MapPut(flat, e.key, Count(flat, e.key) + e.delta.value),
                          entries, i + 1)
           ELSE ApplyFlat(flat, entries, i + 1)

\* A value of a nested group: a number, or a string that is no number.
Num(n) == [number |-> TRUE, value |-> n]
NotACount == [number |-> FALSE, value |-> 0]

\* The names every object inherits from Object.prototype that
\* isSafeNestedMetricKey lets through.
ObjectPrototypeKeys ==
  {"toString", "valueOf", "hasOwnProperty", "isPrototypeOf", "propertyIsEnumerable",
   "toLocaleString", "__defineGetter__", "__defineSetter__", "__lookupGetter__",
   "__lookupSetter__"}

\* (counters[group][key] || 0) + d: the member is the group's own number,
\* its own string, a function inherited from Object.prototype (truthy, so +
\* concatenates its source text and d), or undefined.
Increment(group, key, d) ==
  IF key \in DOMAIN group
  THEN IF group[key].number THEN Num(group[key].value + d) ELSE NotACount
  ELSE IF key \in ObjectPrototypeKeys THEN NotACount
  ELSE Num(d)

\* The loop over the entries of one nested group, from entry i on.
RECURSIVE ApplyGroup(_, _, _)
ApplyGroup(group, entries, i) ==
  IF i > Len(entries) THEN group
  ELSE LET e == entries[i]
           skip == \/ ~isSafeNestedMetricKey(e.key)
                   \/ ~AcceptedDelta(e.delta)
                   \/ /\ e.key \notin DOMAIN group
                      /\ Cardinality(DOMAIN group) >= MAX_NESTED_KEYS_PER_GROUP
       IN  ApplyGroup(IF skip THEN group
                      ELSE MapPut(group, e.key, Increment(group, e.key, e.delta.value)),
                      entries, i + 1)

\* The loop over Object.entries(nested), from group i on.  A group that is
\* allowed and whose value is an object is created when it is missing.
RECURSIVE ApplyNested(_, _, _)
ApplyNested(nested, groups, i) ==
  IF i > Len(groups) THEN nested
  ELSE LET g == groups[i]
           old == IF g.group \in DOMAIN nested THEN nested[g.group] ELSE EmptyMap
       IN  IF g.group \notin ALLOWED_NESTED_GROUPS \/ ~g.plain
           THEN ApplyNested(nested, groups, i + 1)
           ELSE ApplyNested(MapPut(nested, g.group, ApplyGroup(old, g.entries, 1)),
                            groups, i + 1)

\* A member of the payload: absent (or falsy), an object with its entries
\* in order, or another truthy value.
Absent == [kind |-> "absent", entries |-> <<>>]
Object(entries) == [kind |-> "object", entries |-> entries]
NotAnObject == [kind |-> "other", entries |-> <<>>]

Entry(key, delta) == [key |-> key, delta |-> delta]
Group(group, plain, entries) == [group |-> group, plain |-> plain, entries |-> entries]

TelemetryBody(len, json, increments, nested) ==
  [len |-> len, json |-> json, increments |-> increments, nested |-> nested]

NoPayload == TelemetryBody(0, FALSE, Absent, Absent)

\* The aggregate handleTelemetryPost saves for a payload.
ApplyPayload(counters, payload) ==
  [flat |-> IF payload.increments.kind = "object"
            THEN ApplyFlat(counters.flat, payload.increments.entries, 1)
            ELSE counters.flat,
   nested |-> IF payload.nested.kind = "object"
              THEN ApplyNested(counters.nested, payload.nested.entries, 1)
              ELSE counters.nested]

\* A delta the service accepts: a finite number from 0 to 1e9.
InRange(d) == d.finite /\ d.value >= 0 /\ d.value <= 1000000000

\* The sum of the deltas in range that the entries give for a key.
RECURSIVE SumFor(_, _, _)
SumFor(entries, key, i) ==
  IF i > Len(entries) THEN 0
  ELSE (IF entries[i].key = key /\ InRange(entries[i].delta)
        THEN entries[i].delta.value ELSE 0) + SumFor(entries, key, i + 1)

HasValid(entries, key) ==
  \E i \in 1..Len(entries) : entries[i].key = key /\ InRange(entries[i].delta)

KeysOf(entries) == {entries[i].key : i \in 1..Len(entries)}

\* The flat entries of a payload.
FlatEntries(payload) ==
  IF payload.increments.kind = "object" THEN payload.increments.entries ELSE <<>>

\* The history of the deltas posted: the deltas in range of the payload's
\* allow-listed flat keys are added to the sums.
Accumulate(sums, payload) ==
  LET flat == FlatEntries(payload)
      keys == {k \in KeysOf(flat) \cap ALLOWED_FLAT_KEYS : HasValid(flat, k)}
  IN  [k \in DOMAIN sums \cup keys |-> Count(sums, k) + SumFor(flat, k, 1)]

\* Variant: a secret of any length is accepted.
hasValidAdminTokenAnyLength(h, e) ==
  /\ e.TELEMETRY_ADMIN_TOKEN # None
  /\ h.AdminToken # None
  /\ h.AdminToken = e.TELEMETRY_ADMIN_TOKEN

hasValidAdminToken(h, e) ==
  /\ e.TELEMETRY_ADMIN_TOKEN # None
  /\ Len(e.TELEMETRY_ADMIN_TOKEN) >= MIN_ADMIN_TOKEN_LENGTH
  /\ h.AdminToken # None
  /\ h.AdminToken = e.TELEMETRY_ADMIN_TOKEN

\* ------------------------------------------------------------------------
\* Request bodies and responses
\* ------------------------------------------------------------------------
\* A request body: its length, whether JSON.parse accepts it, and the code
\* and url members of the parsed payload (None when absent).
Body(len, json, code, url) == [len |-> len, json |-> json, code |-> code, url |-> url]

\* readShortenBody: the status of the error it reports, 0 when it returns
\* the payload.
readShortenBody(body) ==
  IF body.len > MAX_SHORTEN_BODY_BYTES THEN 413
  ELSE IF ~body.json THEN 400
  ELSE 0

\* A response: the endpoint that answered, the status, the members of the
\* JSON payload or the Location of a redirect or the URL hint embedded in
\* the markup, and the Access-Control-Allow-Origin header.
NoResponse == [kind |-> None]

Response(kind, status, h) ==
  [kind |-> kind, status |-> status, error |-> None,
   code |-> None, url |-> None, existing |-> None, updated |-> None,
   location |-> None, hint |-> None, counters |-> EmptyCounters,
   acao |-> getAllowedOrigin(h),
   asked |-> [code |-> None, url |-> None], superseded |-> {},
   payload |-> NoPayload, before |-> EmptyCounters, token |-> h.AdminToken,
   accept |-> h.Accept, exhausted |-> FALSE,
   acam |-> {}, origin |-> h.Origin, site |-> h.SecFetchSite, path |-> None,
   found |-> None]

\* The code and the URL of the request a response answers: no part of the
\* response, kept with it to relate answers to requests.
Asked(r, code, url) == [r EXCEPT !.asked = [code |-> code, url |-> url]]

\* The URLs that returned Updates had replaced for the code when the request
\* arrived and that no Update has written back since: history, kept with
\* the answer of a redirect request.
Superseded(r, urls) == [r EXCEPT !.superseded = urls]

\* The payload of the telemetry request a response answers and the
\* aggregate that was stored when its write was issued: no part of the
\* response, kept with it to relate the write to what it replaced.  So are
\* token, accept, origin and site, the X-Telemetry-Admin-Token, Accept,
\* Origin and Sec-Fetch-Site headers of the request, path, the path of a
\* preflight request, and found, what the handler read before it went on
\* to write: the reverse entry of the URL for a Create that minted a code,
\* the URL stored for the code for an Update.  acam is Access-Control-Allow-Methods, modelled
\* for preflight answers only.
Applied(r, payload, before) == [r EXCEPT !.payload = payload, !.before = before]

\* The JSON answers of the link endpoints.
CreateResponse(code, existing, h) ==
  [Response("create", 200, h) EXCEPT !.code = code, !.existing = existing]

UpdateResponse(code, updated, h) ==
  [Response("update", 200, h) EXCEPT !.code = code, !.updated = updated]

ResolveResponse(code, url, h) ==
  [Response("resolve", 200, h) EXCEPT !.code = code, !.url = url]

\* jsonResponse({ error }, status, {}, request)
ErrorResponse(kind, status, error, h) ==
  [Response(kind, status, h) EXCEPT !.error = error]

\* The catch of handleRequest around a handler: withRetry has thrown the
\* error of its last attempt.  exhausted is no part of the response: it
\* marks the responses that end a request whose write failed on every
\* attempt.
ServerError(kind, h) ==
  [ErrorResponse(kind, 500, "Server error", h) EXCEPT !.exhausted = TRUE]

\* No catch around the handler: the error leaves handleRequest and fetch,
\* the worker produces no response (status 0) and the platform answers in
\* its place.
Uncaught(kind, h) ==
  [Response(kind, 0, h) EXCEPT !.error = "uncaught exception", !.exhausted = TRUE]

\* getCorsHeaders: Access-Control-Allow-Methods.
AllowMethods(allowDelete, allowPut) ==
  {"GET", "POST", "OPTIONS"} \cup (IF allowDelete THEN {"DELETE"} ELSE {})
                             \cup (IF allowPut THEN {"PUT"} ELSE {})

\* handleRequest, method OPTIONS: the answer for a path and headers.
IsPreflightPath(path) ==
  path \in {"/api/telemetry", "/api/shorten"} \/ StartsWith(path, "/api/resolve/")

\* Variant: the origin is looked at before the path.
PreflightResponseOriginFirst(path, h) ==
  [(IF getAllowedOrigin(h) = None THEN Response("preflight", 403, h)
    ELSE IF ~IsPreflightPath(path) THEN Response("preflight", 404, h)
    ELSE [Response("preflight", 200, h)
            EXCEPT !.acam = AllowMethods(path = "/api/telemetry", path = "/api/shorten")])
   EXCEPT !.path = path]

PreflightResponse(path, h) ==
  [(IF ~IsPreflightPath(path) THEN Response("preflight", 404, h)
    ELSE IF getAllowedOrigin(h) = None THEN Response("preflight", 403, h)
    ELSE [Response("preflight", 200, h)
            EXCEPT !.acam = AllowMethods(path = "/api/telemetry", path = "/api/shorten")])
   EXCEPT !.path = path]

\* `if (cached) return cached`: the stored response, headers included, as
\* the answer to the request with headers h.
Replayed(cached, h) ==
  [cached EXCEPT !.origin = h.Origin, !.site = h.SecFetchSite,
                 !.accept = h.Accept, !.token = h.AdminToken]

\* Variant: the redirect names the client it was built for.
RedirectResponseNamesClient(target, h) ==
  [Response("redirect", 302, h) EXCEPT !.location = target, !.hint = ClientIp(h)]

\* withResponseHeaders(Response.redirect(target, 302), { request })
RedirectResponse(target, h) ==
  [Response("redirect", 302, h) EXCEPT !.location = target]

ShortPath(code) == DOMAIN_ \o "/s/" \o code

\* accept.includes('text/html')
RECURSIVE Includes(_, _, _)
Includes(s, sub, from) ==
  IF from + Len(sub) - 1 > Len(s) THEN FALSE
  ELSE IF SubSeq(s, from, from + Len(sub) - 1) = sub THEN TRUE
  ELSE Includes(s, sub, from + 1)

AcceptsHtml(h) == h.Accept # None /\ Includes(h.Accept, "text/html", 1)

\* longUrl.replace(/&/g, '&amp;').replace(/"/g, '&quot;')
RECURSIVE EscapeFrom(_, _)
EscapeFrom(s, i) ==
  IF i > Len(s) THEN ""
  ELSE (IF CharAt(s, i) = "&" THEN "&amp;"
        ELSE IF CharAt(s, i) = "\"" THEN "&quot;"
        ELSE CharAt(s, i)) \o EscapeFrom(s, i + 1)

EscapeAttr(s) == EscapeFrom(s, 1)

\* Position of the first occurrence of sub in s at or after index from, 0
\* when there is none.
RECURSIVE IndexOf(_, _, _)
IndexOf(s, sub, from) ==
  IF from + Len(sub) - 1 > Len(s) THEN 0
  ELSE IF SubSeq(s, from, from + Len(sub) - 1) = sub THEN from
  ELSE IndexOf(s, sub, from + 1)

\* The replacement text of String.prototype.replace with a string pattern:
\* $$ stands for a dollar sign, $& for the matched text, $` and $' for the
\* text before and after the match; any other character stands for itself.
RECURSIVE ExpandFrom(_, _, _, _, _)
ExpandFrom(r, i, matched, before, after) ==
  IF i > Len(r) THEN ""
  ELSE IF CharAt(r, i) = "$" /\ i < Len(r) /\ CharAt(r, i + 1) \in {"$", "&", "`", "'"}
  THEN (CASE CharAt(r, i + 1) = "$" -> "$"
          [] CharAt(r, i + 1) = "&" -> matched
          [] CharAt(r, i + 1) = "`" -> before
          [] CharAt(r, i + 1) = "'" -> after)
       \o ExpandFrom(r, i + 2, matched, before, after)
  ELSE CharAt(r, i) \o ExpandFrom(r, i + 1, matched, before, after)

\* s.replace(pattern, replacement) for a string pattern: the first
\* occurrence alone is replaced, s is returned as it is when there is none.
ReplaceFirst(s, pattern, replacement) ==
  LET at == IndexOf(s, pattern, 1)
      before == SubSeq(s, 1, at - 1)
      after == SubSeq(s, at + Len(pattern), Len(s))
  IN  IF at = 0 THEN s
      ELSE before \o ExpandFrom(replacement, 1, pattern, before, after) \o after

\* The markup the application's origin serves at /, and what an origin in
\* trouble serves in its place: fetch resolves for any status.
IndexHtml == "<html><head></head></html>"
ErrorPage == "error code: 522"

\* html.replace('<head>', `<head>\n${metaTag}`)
MetaOpen == "<meta name=\"x-resolved-url\" content=\""
InjectMeta(html, longUrl) ==
  ReplaceFirst(html, "<head>", "<head>\n" \o MetaOpen \o EscapeAttr(longUrl) \o "\">")

\* The content attribute of the x-resolved-url meta tag of a markup, None
\* when the markup has no such tag.
ResolvedUrlOf(html) ==
  LET at == IndexOf(html, MetaOpen, 1)
      from == at + Len(MetaOpen)
  IN  IF at = 0 THEN None
      ELSE SubSeq(html, from, FirstOf(html, {"\""}, from) - 1)

\* The markup served to a browser navigation; hint is the resolved URL as
\* the x-resolved-url meta tag of the served markup carries it.
ServedMarkup(html, longUrl, h) ==
  [Response("redirect", 200, h) EXCEPT !.hint = ResolvedUrlOf(InjectMeta(html, longUrl))]

MarkupResponse(longUrl, h) == ServedMarkup(IndexHtml, longUrl, h)

\* ------------------------------------------------------------------------
\* The writes of the two mutating link handlers
\* ------------------------------------------------------------------------
PutOp(key, value) == [op |-> "put", key |-> key, value |-> value]
DeleteOp(key) == [op |-> "delete", key |-> key, value |-> None]

\* handleShortenCreate: Promise.all([put code:<code>, put hash:<digest>])
CreateOps(shortCode, longUrl, urlHash) ==
  { PutOp(CodeKey(shortCode), longUrl), PutOp(HashKey(urlHash), shortCode) }

\* Variant: the Update repoints the reverse index and leaves code:<code>.
UpdateOpsIndexOnly(code, newUrl, oldHash, newHash) ==
  { DeleteOp(HashKey(oldHash)), PutOp(HashKey(newHash), code) }

\* Variant: the delete of the stale entry is given the key of the code.
UpdateOpsDeleteCode(code, newUrl, oldHash, newHash) ==
  { PutOp(CodeKey(code), newUrl), DeleteOp(CodeKey(code)),
    PutOp(HashKey(newHash), code) }

\* Variant: the reverse entry of the old URL is left in place.
UpdateOpsKeepOld(code, newUrl, oldHash, newHash) ==
  { PutOp(CodeKey(code), newUrl), PutOp(HashKey(newHash), code) }

\* handleShortenUpdate: Promise.all([put code:<code>, delete hash:<old>,
\* put hash:<new>])
UpdateOps(code, newUrl, oldHash, newHash) ==
  { PutOp(CodeKey(code), newUrl), DeleteOp(HashKey(oldHash)),
    PutOp(HashKey(newHash), code) }

\* ------------------------------------------------------------------------
\* State
\* ------------------------------------------------------------------------
VARIABLES
  SHORT_URLS,    \* the link namespace: code:<code> -> url, hash:<digest> -> code
  TELEMETRY,     \* the telemetry namespace: counters_v1 -> the aggregate
  cache,         \* caches.default: canonical short path -> cached response
  background,    \* cache writes handed to ctx.waitUntil, not yet settled
  rateLimitMap,  \* "<bucket>:<ip>" -> [windowStart, count]
  now,           \* Date.now()
  env,           \* the bindings and settings of the deployment
  pc,            \* slot -> the await its request is suspended at, or "idle"
  req,           \* slot -> the locals of its request
  out,           \* the response the last step returned, if it returned one
  nreq,          \* number of requests received
  budget,        \* number of requests this behaviour receives
  mints,         \* history: the <<code, url>> of every Create answered existing=false
  updates,       \* history: [code, old, new] of every Update that wrote code:<code>
  stale,         \* history: code -> URLs a returned Update replaced, not written back since
  checks,        \* history: "<bucket>:<ip>" -> the limiter's checks, [at, limited] in order
  posted         \* history: flat key -> sum of the deltas in range posted since the last reset

vars == <<SHORT_URLS, TELEMETRY, cache, background, rateLimitMap, now, env, pc, req, out,
          nreq, budget, mints, updates, stale, checks, posted>>

store == <<SHORT_URLS, cache, background>>
history == <<mints, updates, stale, posted>>

IdleReq ==
  [kind |-> None, headers |-> [Origin |-> None, SecFetchSite |-> None,
                               Accept |-> None, IP |-> None, AdminToken |-> None],
   url |-> None, urlHash |-> None,
   code |-> None, attempts |-> 0, oldUrl |-> None, todo |-> {}, stale |-> {},
   payload |-> NoPayload, counters |-> EmptyCounters,
   tries |-> 0, rejected |-> FALSE, found |-> None]

\* History: the limiter has answered a check for (bucket, ip) at time now.
Checked(ip, bucket, limited) ==
  LET key == bucket \o ":" \o ip
      before == IF key \in DOMAIN checks THEN checks[key] ELSE <<>>
  IN  MapPut(checks, key, Append(before, [at |-> now, limited |-> limited]))

\* The request of slot p returns response r.
Finish(p, r) ==
  /\ pc' = [pc EXCEPT ![p] = "idle"]
  /\ req' = [req EXCEPT ![p] = IdleReq]
  /\ out' = r

\* The request of slot p suspends at the await named label with locals r.
Goto(p, label, r) ==
  /\ pc' = [pc EXCEPT ![p] = label]
  /\ req' = [req EXCEPT ![p] = r]
  /\ out' = NoResponse

\* A new request arrives.
Arrive ==
  /\ nreq < budget
  /\ nreq' = nreq + 1

\* A new request arrives and is given slot p.
Accept(p) ==
  /\ pc[p] = "idle"
  /\ Arrive

\* ------------------------------------------------------------------------
\* POST /api/shorten: handleShortenCreate
\* ------------------------------------------------------------------------
\* From the entry of the handler to the read of the reverse index: the
\* origin gate, the binding check, the rate limiter, the body and the URL.
CreateStart(p, h, body) ==
  /\ Accept(p)
  /\ UNCHANGED <<store, now, env, TELEMETRY, budget, history>>
  /\ IF ~requestLooksSameOrigin(h)
     THEN /\ Finish(p, ErrorResponse("create", 403, "Forbidden origin", h))
          /\ UNCHANGED <<rateLimitMap, checks>>
     ELSE IF ~env.SHORT_URLS
     THEN /\ Finish(p, ErrorResponse("create", 500, "KV namespace not configured", h))
          /\ UNCHANGED <<rateLimitMap, checks>>
     ELSE LET rl == isRateLimited(rateLimitMap, now, ClientIp(h), "shortenCreate")
              bad == readShortenBody(body)
          IN  /\ rateLimitMap' = rl.map
              /\ checks' = Checked(ClientIp(h), "shortenCreate", rl.limited)
              /\ IF rl.limited
                 THEN Finish(p, ErrorResponse("create", 429, "Rate limited", h))
                 ELSE IF bad # 0
                 THEN Finish(p, ErrorResponse("create", bad, "Invalid body", h))
                 ELSE IF body.url = None \/ ~isValidAppUrl(body.url)
                 THEN Finish(p, Asked(ErrorResponse("create", 400, "Invalid URL", h),
                                      None, body.url))
                 ELSE Goto(p, "create_dedup",
                           [IdleReq EXCEPT !.kind = "create", !.headers = h,
                                           !.url = body.url,
                                           !.urlHash = hashUrl(body.url)])

\* The read of hash:<digest>: an entry that is a word code answers the
\* request; a missing entry or one of another shape goes on to generation.
CreateDedup(p) ==
  /\ pc[p] = "create_dedup"
  /\ UNCHANGED <<store, rateLimitMap, now, env, TELEMETRY, nreq, budget, checks, history>>
  /\ LET existingCode == MapGet(SHORT_URLS, HashKey(req[p].urlHash))
     IN  IF existingCode # None /\ WORD_CODE_REGEX(existingCode)
         THEN Finish(p, Asked(CreateResponse(existingCode, TRUE, req[p].headers),
                              None, req[p].url))
         ELSE Goto(p, "create_probe",
                   [req[p] EXCEPT !.attempts = 0, !.found = existingCode])

\* One round of the do-while loop: draw a word code and probe code:<code>.
CreateProbe(p, draw) ==
  /\ pc[p] = "create_probe"
  /\ UNCHANGED <<store, rateLimitMap, now, env, TELEMETRY, nreq, budget, checks, history>>
  /\ LET shortCode == generateWordCode(draw)
         existing == MapGet(SHORT_URLS, CodeKey(shortCode))
         attempts == req[p].attempts + 1
     IN  IF existing = None
         THEN Goto(p, "create_write",
                   [req[p] EXCEPT !.code = shortCode,
                                  !.todo = CreateOps(shortCode, req[p].url, req[p].urlHash)])
         ELSE IF attempts < MAX_WORD_ATTEMPTS
         THEN Goto(p, "create_probe", [req[p] EXCEPT !.attempts = attempts])
         ELSE Goto(p, "create_hex", [req[p] EXCEPT !.attempts = attempts])

\* All word attempts collided: one hex fallback code, probed once.
CreateHexProbe(p, bytes) ==
  /\ pc[p] = "create_hex"
  /\ UNCHANGED <<store, rateLimitMap, now, env, TELEMETRY, nreq, budget, checks, history>>
  /\ LET shortCode == generateHexFallbackCode(bytes)
         existing == MapGet(SHORT_URLS, CodeKey(shortCode))
     IN  IF existing # None
         THEN Finish(p, ErrorResponse("create", 500, "Failed to generate unique code",
                                      req[p].headers))
         ELSE Goto(p, "create_write",
                   [req[p] EXCEPT !.code = shortCode,
                                  !.todo = CreateOps(shortCode, req[p].url, req[p].urlHash)])

\* One write of the Promise.all reaches the store.  The two writes are
\* issued together and land in either order; when both have landed the
\* handler answers existing=false.
\* Put o of the attempt in progress has settled; rejected tells whether a
\* put of the attempt has failed.  When the last one settles, withRetry
\* returns, starts the next attempt, or throws to the catch of
\* handleRequest.
CreateSettled(p, o, rejected) ==
  IF req[p].todo # {o}
  THEN /\ Goto(p, "create_write", [req[p] EXCEPT !.todo = @ \ {o}, !.rejected = rejected])
       /\ UNCHANGED mints
  ELSE IF ~rejected
  THEN /\ Finish(p, [Asked(CreateResponse(req[p].code, FALSE, req[p].headers),
                          None, req[p].url) EXCEPT !.found = req[p].found])
       /\ mints' = Append(mints, <<req[p].code, req[p].url>>)
  ELSE IF req[p].tries + 1 < RETRY_ATTEMPTS
  THEN /\ Goto(p, "create_write",
               [req[p] EXCEPT !.todo = CreateOps(req[p].code, req[p].url, req[p].urlHash),
                              !.tries = @ + 1, !.rejected = FALSE])
       /\ UNCHANGED mints
  ELSE /\ Finish(p, Asked(ServerError("create", req[p].headers), None, req[p].url))
       /\ UNCHANGED mints

\* One of the two puts of Promise.all lands.
CreateWrite(p, o) ==
  /\ pc[p] = "create_write"
  /\ o \in req[p].todo
  /\ SHORT_URLS' = ApplyOp(SHORT_URLS, o)
  /\ UNCHANGED <<cache, background, rateLimitMap, now, env, TELEMETRY, nreq, budget, checks, updates, stale, posted>>
  /\ CreateSettled(p, o, req[p].rejected)

\* One of the two puts of Promise.all fails: the namespace is not written.
CreateWriteFails(p, o) ==
  /\ pc[p] = "create_write"
  /\ o \in req[p].todo
  /\ UNCHANGED <<store, rateLimitMap, now, env, TELEMETRY, nreq, budget, checks, updates, stale, posted>>
  /\ CreateSettled(p, o, TRUE)

\* ------------------------------------------------------------------------
\* PUT /api/shorten: handleShortenUpdate
\* ------------------------------------------------------------------------
UpdateStart(p, h, body) ==
  /\ Accept(p)
  /\ UNCHANGED <<store, now, env, TELEMETRY, budget, history>>
  /\ IF ~requestLooksSameOrigin(h)
     THEN /\ Finish(p, ErrorResponse("update", 403, "Forbidden origin", h))
          /\ UNCHANGED <<rateLimitMap, checks>>
     ELSE IF ~env.SHORT_URLS
     THEN /\ Finish(p, ErrorResponse("update", 500, "KV namespace not configured", h))
          /\ UNCHANGED <<rateLimitMap, checks>>
     ELSE LET rl == isRateLimited(rateLimitMap, now, ClientIp(h), "shortenUpdate")
              bad == readShortenBody(body)
          IN  /\ rateLimitMap' = rl.map
              /\ checks' = Checked(ClientIp(h), "shortenUpdate", rl.limited)
              /\ IF rl.limited
                 THEN Finish(p, ErrorResponse("update", 429, "Rate limited", h))
                 ELSE IF bad # 0
                 THEN Finish(p, ErrorResponse("update", bad, "Invalid body", h))
                 ELSE IF body.code = None \/ ~isValidShortCode(body.code)
                 THEN Finish(p, ErrorResponse("update", 400, "Invalid or missing code", h))
                 ELSE IF body.url = None \/ ~isValidAppUrl(body.url)
                 THEN Finish(p, Asked(ErrorResponse("update", 400, "Invalid or missing URL", h),
                                      body.code, body.url))
                 ELSE Goto(p, "update_read",
                           [IdleReq EXCEPT !.kind = "update", !.headers = h,
                                           !.code = body.code, !.url = body.url])

\* Variant: the Update writes without comparing the URL with the stored one.
UpdateReadNoCompare(p) ==
  /\ pc[p] = "update_read"
  /\ UNCHANGED <<store, rateLimitMap, now, env, TELEMETRY, nreq, budget, checks, history>>
  /\ LET code == req[p].code
         newUrl == req[p].url
         oldUrl == MapGet(SHORT_URLS, CodeKey(code))
     IN  IF oldUrl = None
         THEN Finish(p, Asked(ErrorResponse("update", 404, "Short code not found",
                                            req[p].headers), code, newUrl))
         ELSE Goto(p, "update_write",
                   [req[p] EXCEPT !.oldUrl = oldUrl,
                                  !.todo = UpdateOps(code, newUrl, hashUrl(oldUrl),
                                                     hashUrl(newUrl))])

\* Variant: the Update writes without checking that the code exists.
UpdateReadNoLookup(p) ==
  /\ pc[p] = "update_read"
  /\ UNCHANGED <<store, rateLimitMap, now, env, TELEMETRY, nreq, budget, checks, history>>
  /\ LET code == req[p].code
         newUrl == req[p].url
         oldUrl == MapGet(SHORT_URLS, CodeKey(code))
     IN  IF oldUrl = newUrl
         THEN Finish(p, Asked(UpdateResponse(code, FALSE, req[p].headers), code, newUrl))
         ELSE Goto(p, "update_write",
                   [req[p] EXCEPT !.oldUrl = oldUrl,
                                  !.todo = UpdateOps(code, newUrl, hashUrl(oldUrl),
                                                     hashUrl(newUrl))])

\* The read of code:<code>: not found, unchanged, or on to the writes.
UpdateRead(p) ==
  /\ pc[p] = "update_read"
  /\ UNCHANGED <<store, rateLimitMap, now, env, TELEMETRY, nreq, budget, checks, history>>
  /\ LET code == req[p].code
         newUrl == req[p].url
         oldUrl == MapGet(SHORT_URLS, CodeKey(code))
     IN  IF oldUrl = None
         THEN Finish(p, Asked(ErrorResponse("update", 404, "Short code not found",
                                            req[p].headers), code, newUrl))
         ELSE IF oldUrl = newUrl
         THEN Finish(p, Asked(UpdateResponse(code, FALSE, req[p].headers), code, newUrl))
         ELSE Goto(p, "update_write",
                   [req[p] EXCEPT !.oldUrl = oldUrl,
                                  !.todo = UpdateOps(code, newUrl, hashUrl(oldUrl),
                                                     hashUrl(newUrl))])

\* One write of the Promise.all reaches the store; the three land in any
\* order.  When all have landed the handler goes on to the cache.
\* Operation o of the attempt in progress has settled; rejected tells
\* whether an operation of the attempt has failed.  When the last one
\* settles, withRetry returns (the cache delete is next), starts the next
\* attempt, or throws to the catch of handleRequest.
UpdateRetries(p, o, rejected) ==
  req[p].todo = {o} /\ rejected /\ req[p].tries + 1 < RETRY_ATTEMPTS

UpdateGivesUp(p, o, rejected) ==
  req[p].todo = {o} /\ rejected /\ req[p].tries + 1 >= RETRY_ATTEMPTS

UpdateLocals(p, o, rejected) ==
  IF UpdateRetries(p, o, rejected)
  THEN [req[p] EXCEPT !.todo = UpdateOps(req[p].code, req[p].url, hashUrl(req[p].oldUrl),
                                         hashUrl(req[p].url)),
                      !.tries = @ + 1, !.rejected = FALSE]
  ELSE IF UpdateGivesUp(p, o, rejected) THEN IdleReq
  ELSE [req[p] EXCEPT !.todo = @ \ {o}, !.rejected = rejected]

UpdateSettled(p, o, rejected) ==
  /\ pc' = [pc EXCEPT ![p] = IF UpdateGivesUp(p, o, rejected) THEN "idle"
                              ELSE IF req[p].todo = {o} /\ ~rejected THEN "update_evict"
                              ELSE "update_write"]
  /\ out' = IF UpdateGivesUp(p, o, rejected)
            THEN Asked(ServerError("update", req[p].headers), req[p].code, req[p].url)
            ELSE NoResponse

\* One of the three operations of Promise.all lands.
UpdateWrite(p, o) ==
  /\ pc[p] = "update_write"
  /\ o \in req[p].todo
  /\ SHORT_URLS' = ApplyOp(SHORT_URLS, o)
  /\ UpdateSettled(p, o, req[p].rejected)
  /\ UNCHANGED <<cache, background, rateLimitMap, now, env, TELEMETRY, nreq, budget, checks, mints, posted>>
  /\ IF o.op = "put" /\ o.key = CodeKey(req[p].code)
     THEN \* history: the URL written is current again for the code
          /\ updates' = updates \cup
                {[code |-> req[p].code, old |-> req[p].oldUrl, new |-> req[p].url]}
          /\ stale' = MapPut(stale, req[p].code,
                             (IF req[p].code \in DOMAIN stale THEN stale[req[p].code] ELSE {})
                             \ {o.value})
          /\ req' = [q \in Procs |->
                       IF q = p THEN UpdateLocals(p, o, req[p].rejected)
                       ELSE IF req[q].kind = "redirect" /\ req[q].code = req[p].code
                       THEN [req[q] EXCEPT !.stale = @ \ {o.value}]
                       ELSE req[q]]
     ELSE /\ req' = [req EXCEPT ![p] = UpdateLocals(p, o, req[p].rejected)]
          /\ UNCHANGED <<updates, stale>>

\* One of the three operations of Promise.all fails: the namespace is not
\* written.
UpdateWriteFails(p, o) ==
  /\ pc[p] = "update_write"
  /\ o \in req[p].todo
  /\ UpdateSettled(p, o, TRUE)
  /\ req' = [req EXCEPT ![p] = UpdateLocals(p, o, TRUE)]
  /\ UNCHANGED <<store, rateLimitMap, now, env, TELEMETRY, nreq, budget, checks, history>>

\* caches.default.delete of the canonical short path, then the answer.
UpdateEvict(p) ==
  /\ pc[p] = "update_evict"
  /\ cache' = MapDelete(cache, ShortPath(req[p].code))
  /\ Finish(p, [Asked(UpdateResponse(req[p].code, TRUE, req[p].headers),
                      req[p].code, req[p].url) EXCEPT !.found = req[p].oldUrl])
  /\ UNCHANGED <<SHORT_URLS, background, rateLimitMap, now, env, TELEMETRY, nreq, budget, checks, mints, updates, posted>>
  /\ stale' = IF MapGet(SHORT_URLS, CodeKey(req[p].code)) = req[p].oldUrl
              THEN stale
              ELSE MapPut(stale, req[p].code,
                          (IF req[p].code \in DOMAIN stale THEN stale[req[p].code] ELSE {})
                          \cup {req[p].oldUrl})

\* ------------------------------------------------------------------------
\* GET /api/resolve/<code>: handleResolve
\* ------------------------------------------------------------------------
\* What handleResolve answers for shortCode on namespace kv.
ResolveAnswer(kv, bound, shortCode, h) ==
  IF ~bound \/ ~isValidShortCode(shortCode)
  THEN ErrorResponse("resolve", 400, "Invalid short code", h)
  ELSE LET longUrl == MapGet(kv, CodeKey(shortCode))
       IN  IF longUrl = None
           THEN ErrorResponse("resolve", 404, "Short code not found", h)
           ELSE ResolveResponse(shortCode, longUrl, h)

\* The handler validates and reads once; nothing is written.
Resolve(h, shortCode) ==
  /\ Arrive
  /\ out' = Asked(ResolveAnswer(SHORT_URLS, env.SHORT_URLS, shortCode, h), shortCode, None)
  /\ UNCHANGED <<store, rateLimitMap, now, env, TELEMETRY, pc, req, budget, checks, history>>

\* ------------------------------------------------------------------------
\* GET /s/<code>: handleRedirect
\* ------------------------------------------------------------------------
\* From the entry of the handler through its first await: the store read of
\* a browser navigation, or the cache lookup of any other client.
RedirectStart(p, h, shortCode) ==
  /\ Accept(p)
  /\ UNCHANGED <<store, rateLimitMap, now, env, TELEMETRY, budget, checks, history>>
  /\ IF ~env.SHORT_URLS \/ ~isValidShortCode(shortCode)
     THEN Finish(p, Asked(RedirectResponse(DOMAIN_, h), shortCode, None))
     ELSE IF AcceptsHtml(h)
     THEN LET longUrl == MapGet(SHORT_URLS, CodeKey(shortCode))
          IN  IF longUrl = None
              THEN Finish(p, Asked(RedirectResponse(DOMAIN_, h), shortCode, None))
              ELSE Goto(p, "redirect_fetch",
                        [IdleReq EXCEPT !.kind = "redirect", !.headers = h,
                                        !.code = shortCode, !.url = longUrl])
     ELSE LET cached == cache[ShortPath(shortCode)]
          IN  IF ShortPath(shortCode) \in DOMAIN cache
              THEN Finish(p, Superseded(Asked(Replayed(cached, h), shortCode, None),
                                        IF shortCode \in DOMAIN stale
                                        THEN stale[shortCode] ELSE {}))
              ELSE Goto(p, "redirect_get",
                        [IdleReq EXCEPT !.kind = "redirect", !.headers = h,
                                        !.code = shortCode,
                                        !.stale = IF shortCode \in DOMAIN stale
                                                  THEN stale[shortCode] ELSE {}])

\* The fetch of the application markup settles: "ok" (the markup) or
\* "throws" (the fallback redirect).
FetchOutcomes == {"ok", "throws"}

RedirectFetch(p, outcome) ==
  /\ pc[p] = "redirect_fetch"
  /\ UNCHANGED <<store, rateLimitMap, now, env, TELEMETRY, nreq, budget, checks, history>>
  /\ IF outcome = "throws"
     THEN Finish(p, Asked(RedirectResponse(req[p].url, req[p].headers), req[p].code, None))
     ELSE Finish(p, Asked(MarkupResponse(req[p].url, req[p].headers),
                          req[p].code, None))

\* The fetch resolves with the page of an origin in trouble: the catch is
\* not entered, the page is served with whatever the replace made of it.
RedirectFetchErrorPage(p) ==
  /\ pc[p] = "redirect_fetch"
  /\ UNCHANGED <<store, rateLimitMap, now, env, TELEMETRY, nreq, budget, checks, history>>
  /\ Finish(p, Asked(ServedMarkup(ErrorPage, req[p].url, req[p].headers),
                     req[p].code, None))

\* Variant: the redirect to the home origin is cached as well.
RedirectGetCachesHome(p) ==
  /\ pc[p] = "redirect_get"
  /\ UNCHANGED <<SHORT_URLS, cache, rateLimitMap, now, env, TELEMETRY, nreq, budget, checks, history>>
  /\ LET longUrl == MapGet(SHORT_URLS, CodeKey(req[p].code))
         target == IF longUrl # None /\ isValidAppUrl(longUrl) THEN longUrl ELSE DOMAIN_
         response == RedirectResponse(target, req[p].headers)
     IN  /\ background' = background \cup
               {[key |-> ShortPath(req[p].code), response |-> response]}
         /\ Finish(p, Superseded(Asked(response, req[p].code, None), req[p].stale))

\* Variant: the cache write is awaited before the response is returned, and
\* a write that fails takes the response with it.
RedirectGetAwaitsPut(p) ==
  /\ pc[p] = "redirect_get"
  /\ UNCHANGED <<SHORT_URLS, background, rateLimitMap, now, env, TELEMETRY, nreq, budget, checks, history>>
  /\ LET longUrl == MapGet(SHORT_URLS, CodeKey(req[p].code))
         response == RedirectResponse(longUrl, req[p].headers)
     IN  IF longUrl # None /\ isValidAppUrl(longUrl)
         THEN \/ /\ cache' = MapPut(cache, ShortPath(req[p].code), response)
                 /\ Finish(p, Superseded(Asked(response, req[p].code, None), req[p].stale))
              \/ /\ UNCHANGED cache
                 /\ Finish(p, Asked(Uncaught("redirect", req[p].headers), req[p].code, None))
         ELSE /\ UNCHANGED cache
              /\ Finish(p, Asked(RedirectResponse(DOMAIN_, req[p].headers),
                                 req[p].code, None))

\* Cache miss: read code:<code>, answer the redirect and hand its cache
\* write to ctx.waitUntil.
RedirectGet(p) ==
  /\ pc[p] = "redirect_get"
  /\ UNCHANGED <<SHORT_URLS, cache, rateLimitMap, now, env, TELEMETRY, nreq, budget, checks, history>>
  /\ LET longUrl == MapGet(SHORT_URLS, CodeKey(req[p].code))
         response == RedirectResponse(longUrl, req[p].headers)
     IN  IF longUrl # None /\ isValidAppUrl(longUrl)
         THEN /\ background' = background \cup
                    {[key |-> ShortPath(req[p].code), response |-> response]}
              /\ Finish(p, Superseded(Asked(response, req[p].code, None), req[p].stale))
         ELSE /\ UNCHANGED background
              /\ Finish(p, Asked(RedirectResponse(DOMAIN_, req[p].headers),
                                 req[p].code, None))

\* The first await of the handler fails: the first attempt of the store
\* read of a browser navigation throws and withRetry tries again, or the
\* cache lookup of any other client throws, which nothing catches.
RedirectLookupFails(p, h, shortCode) ==
  /\ Accept(p)
  /\ env.SHORT_URLS
  /\ isValidShortCode(shortCode)
  /\ UNCHANGED <<store, rateLimitMap, now, env, TELEMETRY, budget, checks, history>>
  /\ IF AcceptsHtml(h)
     THEN Goto(p, "redirect_retry",
               [IdleReq EXCEPT !.kind = "redirect", !.headers = h,
                               !.code = shortCode, !.tries = 1])
     ELSE Finish(p, Asked(Uncaught("redirect", h), shortCode, None))

\* The second attempt of the store read of a browser navigation returns.
RedirectRetry(p) ==
  /\ pc[p] = "redirect_retry"
  /\ UNCHANGED <<store, rateLimitMap, now, env, TELEMETRY, nreq, budget, checks, history>>
  /\ LET longUrl == MapGet(SHORT_URLS, CodeKey(req[p].code))
     IN  IF longUrl = None
         THEN Finish(p, Asked(RedirectResponse(DOMAIN_, req[p].headers), req[p].code, None))
         ELSE Goto(p, "redirect_fetch", [req[p] EXCEPT !.url = longUrl])

\* The second attempt throws as well: withRetry throws the error, and
\* neither handleRedirect nor handleRequest catches it.
RedirectRetryFails(p) ==
  /\ pc[p] = "redirect_retry"
  /\ UNCHANGED <<store, rateLimitMap, now, env, TELEMETRY, nreq, budget, checks, history>>
  /\ Finish(p, Asked(Uncaught("redirect", req[p].headers), req[p].code, None))

\* Cache miss: an attempt of the store read throws; withRetry tries again
\* or throws the error, which nothing catches.
RedirectGetFails(p) ==
  /\ pc[p] = "redirect_get"
  /\ UNCHANGED <<store, rateLimitMap, now, env, TELEMETRY, nreq, budget, checks, history>>
  /\ IF req[p].tries + 1 < RETRY_ATTEMPTS
     THEN Goto(p, "redirect_get", [req[p] EXCEPT !.tries = @ + 1])
     ELSE Finish(p, Asked(Uncaught("redirect", req[p].headers), req[p].code, None))

\* ------------------------------------------------------------------------
\* The edge cache
\* ------------------------------------------------------------------------
\* A cache write handed to ctx.waitUntil completes.
BackgroundPut(b) ==
  /\ b \in background
  /\ cache' = MapPut(cache, b.key, b.response)
  /\ background' = background \ {b}
  /\ out' = NoResponse
  /\ UNCHANGED <<SHORT_URLS, rateLimitMap, now, env, TELEMETRY, pc, req, nreq, budget, checks, history>>

\* A cache write handed to ctx.waitUntil fails: nothing is stored.
BackgroundPutFails(b) ==
  /\ b \in background
  /\ background' = background \ {b}
  /\ out' = NoResponse
  /\ UNCHANGED <<SHORT_URLS, cache, rateLimitMap, now, env, TELEMETRY, pc, req, nreq, budget, checks, history>>

\* The cache drops an entry: its max-age of REDIRECT_CACHE_SECONDS has
\* passed, or the cache evicts it earlier.
CacheExpire(key) ==
  /\ key \in DOMAIN cache
  /\ cache' = MapDelete(cache, key)
  /\ out' = NoResponse
  /\ UNCHANGED <<SHORT_URLS, background, rateLimitMap, now, env, TELEMETRY, pc, req, nreq, budget, checks, history>>

\* ------------------------------------------------------------------------
\* /api/telemetry: handleTelemetryPost, handleTelemetryGet,
\* handleTelemetryDelete
\* ------------------------------------------------------------------------
\* What namespace t stores under counters_v1, {} when the key is missing.
CountersOf(t) == IF TELEMETRY_KV_KEY \in DOMAIN t THEN t[TELEMETRY_KV_KEY] ELSE EmptyCounters

StoredCounters == CountersOf(TELEMETRY)

\* POST, from the entry of the handler to the read of the aggregate: the
\* origin gate, the binding check, the rate limiter and the payload.
TelemetryPostStart(p, h, body) ==
  /\ Accept(p)
  /\ UNCHANGED <<store, now, env, TELEMETRY, budget, history>>
  /\ IF ~requestLooksSameOrigin(h)
     THEN /\ Finish(p, ErrorResponse("telemetry_post", 403, "Forbidden origin", h))
          /\ UNCHANGED <<rateLimitMap, checks>>
     ELSE IF ~env.TELEMETRY
     THEN /\ Finish(p, ErrorResponse("telemetry_post", 500,
                                     "TELEMETRY KV namespace not configured", h))
          /\ UNCHANGED <<rateLimitMap, checks>>
     ELSE LET rl == isRateLimited(rateLimitMap, now, ClientIp(h), "telemetry")
          IN  /\ rateLimitMap' = rl.map
              /\ checks' = Checked(ClientIp(h), "telemetry", rl.limited)
              /\ IF rl.limited
                 THEN Finish(p, ErrorResponse("telemetry_post", 429, "Rate limited", h))
                 ELSE IF body.len > MAX_TELEMETRY_PAYLOAD_CHARS
                 THEN Finish(p, ErrorResponse("telemetry_post", 413, "Payload too large", h))
                 ELSE IF ~body.json
                 THEN Finish(p, ErrorResponse("telemetry_post", 400, "Invalid JSON", h))
                 ELSE IF body.increments.kind = "absent" /\ body.nested.kind = "absent"
                 THEN Finish(p, ErrorResponse("telemetry_post", 400,
                                              "Missing increments or nested fields", h))
                 ELSE Goto(p, "telemetry_get",
                           [IdleReq EXCEPT !.kind = "telemetry", !.headers = h,
                                           !.payload = body])

\* POST: the aggregate is read and the increments are applied to the copy
\* the request holds.
TelemetryPostGet(p) ==
  /\ pc[p] = "telemetry_get"
  /\ Goto(p, "telemetry_put",
          [req[p] EXCEPT !.counters = ApplyPayload(StoredCounters, req[p].payload)])
  /\ UNCHANGED <<store, rateLimitMap, now, env, TELEMETRY, nreq, budget, checks, history>>

\* POST: the read of the aggregate throws (or what it returns does not
\* parse): the catch substitutes an empty aggregate, and the increments are
\* applied to that.
TelemetryPostGetFails(p) ==
  /\ pc[p] = "telemetry_get"
  /\ Goto(p, "telemetry_put",
          [req[p] EXCEPT !.counters = ApplyPayload(EmptyCounters, req[p].payload)])
  /\ UNCHANGED <<store, rateLimitMap, now, env, TELEMETRY, nreq, budget, checks, history>>

\* POST: the aggregate the request holds is saved, then the answer.
TelemetryPostPut(p) ==
  /\ pc[p] = "telemetry_put"
  /\ TELEMETRY' = MapPut(TELEMETRY, TELEMETRY_KV_KEY, req[p].counters)
  /\ Finish(p, Applied(Response("telemetry_post", 200, req[p].headers),
                       req[p].payload, StoredCounters))
  /\ posted' = Accumulate(posted, req[p].payload)
  /\ UNCHANGED <<store, rateLimitMap, now, env, nreq, budget, checks, mints, updates, stale>>

\* POST: the put of the aggregate fails; withRetry tries again or throws to
\* the catch of handleRequest.
TelemetryPostPutFails(p) ==
  /\ pc[p] = "telemetry_put"
  /\ IF req[p].tries + 1 < RETRY_ATTEMPTS
     THEN Goto(p, "telemetry_put", [req[p] EXCEPT !.tries = @ + 1])
     ELSE Finish(p, Applied(ServerError("telemetry_post", req[p].headers),
                            req[p].payload, StoredCounters))
  /\ UNCHANGED <<store, rateLimitMap, now, env, TELEMETRY, nreq, budget, checks, history>>

\* GET: the aggregate as namespace t stores it; bound tells whether the
\* namespace is bound.
TelemetryGetAnswer(t, bound, h) ==
  IF ~requestLooksSameOrigin(h)
  THEN ErrorResponse("telemetry_get", 403, "Forbidden origin", h)
  ELSE IF ~bound
  THEN ErrorResponse("telemetry_get", 500, "TELEMETRY KV namespace not configured", h)
  ELSE [Response("telemetry_get", 200, h) EXCEPT !.counters = CountersOf(t)]

TelemetryGet(h) ==
  /\ Arrive
  /\ out' = TelemetryGetAnswer(TELEMETRY, env.TELEMETRY, h)
  /\ UNCHANGED <<store, rateLimitMap, now, env, TELEMETRY, pc, req, budget, checks, history>>

\* A DELETE that stores the empty aggregate before it looks at the request.
TelemetryDeleteBeforeAuth(h) ==
  /\ Arrive
  /\ UNCHANGED <<store, rateLimitMap, now, env, pc, req, budget, checks, mints, updates, stale>>
  /\ TELEMETRY' = MapPut(TELEMETRY, TELEMETRY_KV_KEY, EmptyCounters)
  /\ posted' = EmptyMap
  /\ out' = IF ~requestLooksSameOrigin(h)
            THEN ErrorResponse("telemetry_delete", 403, "Forbidden origin", h)
            ELSE IF env.ALLOW_UNAUTHENTICATED_TELEMETRY_RESET # "true"
                    /\ ~hasValidAdminToken(h, env)
            THEN ErrorResponse("telemetry_delete", 403, "Unauthorized", h)
            ELSE Applied(Response("telemetry_delete", 200, h), NoPayload, StoredCounters)

\* A DELETE whose reset empties the flat counters and keeps the groups.
TelemetryDeleteKeepsGroups(h) ==
  /\ Arrive
  /\ UNCHANGED <<store, rateLimitMap, now, env, pc, req, budget, checks, mints, updates, stale>>
  /\ IF \/ ~requestLooksSameOrigin(h)
        \/ env.ALLOW_UNAUTHENTICATED_TELEMETRY_RESET # "true" /\ ~hasValidAdminToken(h, env)
     THEN /\ out' = ErrorResponse("telemetry_delete", 403, "Unauthorized", h)
          /\ UNCHANGED <<TELEMETRY, posted>>
     ELSE /\ out' = Applied(Response("telemetry_delete", 200, h), NoPayload, StoredCounters)
          /\ TELEMETRY' = MapPut(TELEMETRY, TELEMETRY_KV_KEY,
                                 [StoredCounters EXCEPT !.flat = EmptyMap])
          /\ posted' = EmptyMap

\* DELETE: an authorized reset stores the empty aggregate.
TelemetryDelete(h) ==
  /\ Arrive
  /\ UNCHANGED <<store, rateLimitMap, now, env, pc, req, budget, checks, mints, updates, stale>>
  /\ IF ~requestLooksSameOrigin(h)
     THEN /\ out' = ErrorResponse("telemetry_delete", 403, "Forbidden origin", h)
          /\ UNCHANGED <<TELEMETRY, posted>>
     ELSE IF ~env.TELEMETRY
     THEN /\ out' = ErrorResponse("telemetry_delete", 500,
                                  "TELEMETRY KV namespace not configured", h)
          /\ UNCHANGED <<TELEMETRY, posted>>
     ELSE IF env.ALLOW_UNAUTHENTICATED_TELEMETRY_RESET # "true" /\ ~hasValidAdminToken(h, env)
     THEN /\ out' = ErrorResponse("telemetry_delete", 403, "Unauthorized", h)
          /\ UNCHANGED <<TELEMETRY, posted>>
     ELSE /\ out' = Applied(Response("telemetry_delete", 200, h), NoPayload, StoredCounters)
          /\ TELEMETRY' = MapPut(TELEMETRY, TELEMETRY_KV_KEY, EmptyCounters)
          /\ posted' = EmptyMap

\* DELETE: the put of the empty aggregate fails on every attempt of
\* withRetry; handleRequest returns the handler's promise with no catch
\* around it.
TelemetryDeleteFails(h) ==
  /\ Arrive
  /\ requestLooksSameOrigin(h)
  /\ env.TELEMETRY
  /\ env.ALLOW_UNAUTHENTICATED_TELEMETRY_RESET = "true" \/ hasValidAdminToken(h, env)
  /\ out' = Uncaught("telemetry_delete", h)
  /\ UNCHANGED <<store, TELEMETRY, rateLimitMap, now, env, pc, req, budget, checks, history>>

\* ------------------------------------------------------------------------
\* OPTIONS, any path
\* ------------------------------------------------------------------------
Options(path, h) ==
  /\ Arrive
  /\ out' = PreflightResponse(path, h)
  /\ UNCHANGED <<store, TELEMETRY, rateLimitMap, now, env, pc, req, budget, checks, history>>

\* ------------------------------------------------------------------------
\* Requests the model sends
\* ------------------------------------------------------------------------
UrlA == "https://pt-onia.app/#a"
UrlB == "https://pt-onia.app/#b"
AppUrls == {UrlA, UrlB}
\* URLs of other origins: another host that starts with the service's, the
\* service's host as userinfo, another scheme, another port, and no URL.
ForeignUrls ==
  {"https://pt-onia.app.evil.example/#a", "https://pt-onia.app@evil.example/#a",
   "http://pt-onia.app/#a", "https://pt-onia.app:8443/#a", "pt-onia.app/#a"}

LegacyCode == "AbC234"
WordCodes == {generateWordCode(d) : d \in WordDraws}
HexCodes == {generateHexFallbackCode(b) : b \in HexDraws}
AskedCodes == WordCodes \cup HexCodes \cup {LegacyCode, "not-a-real-code"}

Headers(origin, site, accept, ip) ==
  [Origin |-> origin, SecFetchSite |-> site, Accept |-> accept, IP |-> ip,
   AdminToken |-> None]

ClientA == "203.0.113.7"

\* A fetch() of the application itself, and one of a page of another site.
SameOriginFetch == Headers(APP_ORIGIN, "same-origin", "application/json", ClientA)
CrossSiteFetch == Headers("https://evil.example", "cross-site", "application/json", ClientA)
\* A browser navigation to a short link, and a client that is no browser.
Navigation == Headers(None, "none", "text/html,application/xhtml+xml", ClientA)
ApiClient == Headers(None, None, "*/*", ClientA)

LinkHeaders == {Navigation, ApiClient}

\* POST /api/shorten requests: [headers, body].
Request(h, body) == [headers |-> h, body |-> body]

CreateRequests ==
  {Request(SameOriginFetch, Body(64, TRUE, None, u)) : u \in AppUrls \cup ForeignUrls}
    \cup {Request(SameOriginFetch, Body(64, TRUE, None, None)),
          Request(SameOriginFetch, Body(64, FALSE, None, None)),
          Request(SameOriginFetch, Body(MAX_SHORTEN_BODY_BYTES + 1, TRUE, None, UrlA)),
          Request(CrossSiteFetch, Body(64, TRUE, None, UrlA))}

\* PUT /api/shorten requests.
UpdateRequests ==
  {Request(SameOriginFetch, Body(64, TRUE, c, u)) : c \in AskedCodes, u \in AppUrls}
    \cup {Request(SameOriginFetch, Body(64, TRUE, LegacyCode, u)) : u \in ForeignUrls}
    \cup {Request(SameOriginFetch, Body(64, TRUE, None, UrlA)),
          Request(SameOriginFetch, Body(64, FALSE, None, None)),
          Request(SameOriginFetch, Body(MAX_SHORTEN_BODY_BYTES + 1, TRUE, LegacyCode, UrlA)),
          Request(CrossSiteFetch, Body(64, TRUE, LegacyCode, UrlB))}

\* A fetch() of the application that carries an admin token.
AdminSecret == "correct-horse-battery-staple"
WithToken(h, token) == [h EXCEPT !.AdminToken = token]

\* POST /api/telemetry requests.
SaveClicksBody == TelemetryBody(64, TRUE, Object(<<Entry("saveClicks", Delta(2))>>), Absent)

FilteredBody ==
  TelemetryBody(512, TRUE,
    Object(<<Entry("saveClicks", Delta(-1)), Entry("shoeSize", Delta(1)),
             Entry("totalSessions", NotANumber),
             Entry("units_days", Delta(MAX_DELTA + 1)),
             Entry("units_hours", Delta(3))>>),
    Object(<<Group("theme", TRUE, <<Entry("dark", Delta(1)), Entry("__proto__", Delta(1)),
                                    Entry("two words", Delta(1)),
                                    Entry("toString", Delta(1))>>),
             Group("referrer", TRUE, <<Entry("search", Delta(1))>>),
             Group("quickSelect", FALSE, <<>>)>>))

TelemetryPostRequests ==
  {Request(SameOriginFetch,
           TelemetryBody(64, TRUE, Object(<<Entry("saveClicks", Delta(2))>>), Absent)),
   Request(SameOriginFetch, FilteredBody),
   Request(SameOriginFetch, TelemetryBody(64, TRUE, NotAnObject, Absent)),
   Request(SameOriginFetch, TelemetryBody(64, TRUE, Absent, Absent)),
   Request(SameOriginFetch, TelemetryBody(64, FALSE, Absent, Absent)),
   Request(SameOriginFetch,
           TelemetryBody(MAX_TELEMETRY_PAYLOAD_CHARS + 1, TRUE,
                         Object(<<Entry("saveClicks", Delta(2))>>), Absent)),
   Request(CrossSiteFetch,
           TelemetryBody(64, TRUE, Object(<<Entry("saveClicks", Delta(2))>>), Absent))}

TelemetryGetHeaders == {SameOriginFetch, CrossSiteFetch}

TelemetryDeleteHeaders ==
  {WithToken(SameOriginFetch, AdminSecret), WithToken(SameOriginFetch, "guess"),
   SameOriginFetch, WithToken(CrossSiteFetch, AdminSecret)}

\* The deployments of the model: both namespaces bound and an admin secret
\* set, or nothing bound and nothing set.
Deployment(bound, flag, secret) ==
  [SHORT_URLS |-> bound, TELEMETRY |-> bound,
   ALLOW_UNAUTHENTICATED_TELEMETRY_RESET |-> flag,
   TELEMETRY_ADMIN_TOKEN |-> secret]

Production == Deployment(TRUE, None, AdminSecret)
Unbound == Deployment(FALSE, None, None)

Deployments == {Production, Unbound}

\* ------------------------------------------------------------------------
\* Initial states
\* ------------------------------------------------------------------------
\* The link namespace is empty, or holds a link that an earlier version of
\* the worker minted with a legacy code.
LegacyStore ==
  MapPut(MapPut(EmptyMap, CodeKey(LegacyCode), UrlA), HashKey(hashUrl(UrlA)), LegacyCode)

Start(requests) ==
  /\ budget = requests
  /\ SHORT_URLS \in {EmptyMap, LegacyStore}
  /\ cache = EmptyMap
  /\ background = {}
  /\ rateLimitMap = EmptyMap
  /\ now = 0
  /\ env \in Deployments
  /\ TELEMETRY = EmptyMap
  /\ pc = [p \in Procs |-> "idle"]
  /\ req = [p \in Procs |-> IdleReq]
  /\ out = NoResponse
  /\ nreq = 0
  /\ mints = <<>>
  /\ posted = EmptyMap
  /\ updates = {}
  /\ stale = EmptyMap
  /\ checks = EmptyMap

Init == Start(MaxRequests)

InitSeq == Start(MaxSeqRequests)

\* ------------------------------------------------------------------------
\* Next-state relations
\* ------------------------------------------------------------------------
\* The steps of the request in slot p.
Step(p) ==
  \/ \E r \in CreateRequests : CreateStart(p, r.headers, r.body)
  \/ CreateDedup(p)
  \/ \E draw \in WordDraws : CreateProbe(p, draw)
  \/ \E bytes \in HexDraws : CreateHexProbe(p, bytes)
  \/ \E o \in req[p].todo : CreateWrite(p, o)
  \/ \E r \in UpdateRequests : UpdateStart(p, r.headers, r.body)
  \/ UpdateRead(p)
  \/ \E o \in req[p].todo : UpdateWrite(p, o)
  \/ UpdateEvict(p)
  \/ \E h \in LinkHeaders, c \in AskedCodes : RedirectStart(p, h, c)
  \/ \E outcome \in FetchOutcomes : RedirectFetch(p, outcome)
  \/ RedirectGet(p)
  \/ \E r \in TelemetryPostRequests : TelemetryPostStart(p, r.headers, r.body)
  \/ TelemetryPostGet(p)
  \/ TelemetryPostPut(p)

\* The steps that belong to no slot.
Other ==
  \/ \E c \in AskedCodes : Resolve(ApiClient, c)
  \/ \E h \in TelemetryGetHeaders : TelemetryGet(h)
  \/ \E h \in TelemetryDeleteHeaders : TelemetryDelete(h)
  \/ \E b \in background : BackgroundPut(b)
  \/ \E b \in background : BackgroundPutFails(b)
  \/ \E key \in DOMAIN cache : CacheExpire(key)

\* Requests overlap: the steps of the slots interleave.
Next == (\E p \in Procs : Step(p)) \/ Other

Spec == Init /\ [][Next]_vars

\* Requests arrive one after another: a single slot.
NextSeq == Step(1) \/ Other

SpecSeq == InitSeq /\ [][NextSeq]_vars

\* ------------------------------------------------------------------------
\* The rate limiter over time
\* ------------------------------------------------------------------------
\* Number of requests of a behaviour that exercises the limiter, and the
\* latest time the clock reaches.
MaxRateRequests == 8
MaxWindows == 1
MaxTime == MaxWindows * (RATE_LIMIT_WINDOW_MS + 1)

\* Date.now() advances: by exactly the window, or by one millisecond more.
Tick(d) ==
  /\ now + d <= MaxTime
  /\ now' = now + d
  /\ out' = NoResponse
  /\ UNCHANGED <<store, TELEMETRY, rateLimitMap, env, pc, req, nreq, budget, checks, history>>

TickSteps == {RATE_LIMIT_WINDOW_MS, RATE_LIMIT_WINDOW_MS + 1}

ClientB == "198.51.100.9"
FromClient(h, ip) == [h EXCEPT !.IP = ip]
Clients == {ClientA, ClientB}

\* Requests that pass the origin gate and are answered right after the
\* limiter: their body is not JSON.
LimiterHeaders == {FromClient(SameOriginFetch, ip) : ip \in Clients}
UnparsedBody == Body(64, FALSE, None, None)
UnparsedTelemetryBody == TelemetryBody(64, FALSE, Absent, Absent)

\* A table the worker has reached at time 0: ClientA has made all but two
\* of the update and telemetry requests of a window, and what the limiter
\* answered them.
SpentKeys == {"shortenUpdate:" \o ClientA, "telemetry:" \o ClientA}
BucketOf(key) == SubSeq(key, 1, FirstOf(key, {":"}, 1) - 1)
SpentTable ==
  [key \in SpentKeys |-> [windowStart |-> 0, count |-> RATE_LIMITS[BucketOf(key)] - 2]]
SpentChecks ==
  [key \in SpentKeys |->
     [i \in 1..(RATE_LIMITS[BucketOf(key)] - 2) |-> [at |-> 0, limited |-> FALSE]]]

InitRate ==
  /\ budget = MaxRateRequests
  /\ SHORT_URLS = LegacyStore
  /\ TELEMETRY = EmptyMap
  /\ cache = EmptyMap
  /\ background = {}
  /\ rateLimitMap = SpentTable
  /\ checks = SpentChecks
  /\ now = 0
  /\ env = Production
  /\ pc = [p \in Procs |-> "idle"]
  /\ req = [p \in Procs |-> IdleReq]
  /\ out = NoResponse
  /\ nreq = 0
  /\ mints = <<>>
  /\ posted = EmptyMap
  /\ updates = {}
  /\ stale = EmptyMap

NextRate ==
  \/ \E h \in LimiterHeaders : CreateStart(1, h, UnparsedBody)
  \/ UpdateStart(1, SameOriginFetch, UnparsedBody)
  \/ TelemetryPostStart(1, SameOriginFetch, UnparsedTelemetryBody)
  \/ \E d \in TickSteps : Tick(d)

SpecRate == InitRate /\ [][NextRate]_vars

\* ------------------------------------------------------------------------
\* A worker in service
\* ------------------------------------------------------------------------
\* Number of requests of a behaviour that starts from a worker in service.
MaxBusyRequests == 3

\* The worker has served ClientA all but one of the requests of a window on
\* every bucket, a link is stored and one telemetry payload has been merged.
BusyKeys == {bucket \o ":" \o ClientA : bucket \in DOMAIN RATE_LIMITS}
BusyTable ==
  [key \in BusyKeys |-> [windowStart |-> 0, count |-> RATE_LIMITS[BucketOf(key)] - 1]]
BusyChecks ==
  [key \in BusyKeys |->
     [i \in 1..(RATE_LIMITS[BucketOf(key)] - 1) |-> [at |-> 0, limited |-> FALSE]]]
BusyCounters == ApplyPayload(EmptyCounters, SaveClicksBody)

\* The stored link has a legacy code, or a word code this version minted.
AmberCode == generateWordCode(<<"amber", "coral", "nova">>)
WordStore ==
  MapPut(MapPut(EmptyMap, CodeKey(AmberCode), UrlA), HashKey(hashUrl(UrlA)), AmberCode)

InitBusy ==
  /\ budget = MaxBusyRequests
  /\ SHORT_URLS \in {LegacyStore, WordStore}
  /\ TELEMETRY = MapPut(EmptyMap, TELEMETRY_KV_KEY, BusyCounters)
  /\ cache = EmptyMap
  /\ background = {}
  /\ rateLimitMap = BusyTable
  /\ checks = BusyChecks
  /\ now = 0
  /\ env = Production
  /\ pc = [p \in Procs |-> "idle"]
  /\ req = [p \in Procs |-> IdleReq]
  /\ out = NoResponse
  /\ nreq = 0
  /\ mints = <<>>
  /\ posted = BusyCounters.flat
  /\ updates = {}
  /\ stale = EmptyMap

\* Preflight requests: the paths of the three API routes, a path next to
\* them and a short link, from a development origin, a foreign origin and
\* a client that sends no Origin.
PreflightPaths ==
  {"/api/telemetry", "/api/shorten", "/api/resolve/" \o LegacyCode, "/api/resolve",
   "/s/" \o LegacyCode}
DevFetch == Headers("http://localhost:5173", "same-site", "application/json", ClientA)
PreflightHeaders == {DevFetch, CrossSiteFetch, ApiClient}

NextBusy ==
  \/ Next
  \/ \E path \in PreflightPaths, h \in PreflightHeaders : Options(path, h)

SpecBusy == InitBusy /\ [][NextBusy]_vars

\* ------------------------------------------------------------------------
\* The telemetry endpoints, one request after another
\* ------------------------------------------------------------------------
MaxTelemetryRequests == 4

\* Deployments with the telemetry namespace bound: a secret of 28
\* characters, one of 16, one of 15, the reset left open by the flag, and a
\* flag with another value than 'true'.
ShortSecret == "fifteen-chars-x"
MinimalSecret == "sixteen-chars-xy"
ShortSecretDeployment == Deployment(TRUE, None, ShortSecret)
MinimalSecretDeployment == Deployment(TRUE, None, MinimalSecret)
OpenReset == Deployment(TRUE, "true", None)
FlagNotTrue == Deployment(TRUE, "1", None)
TelemetryDeployments ==
  {Production, MinimalSecretDeployment, ShortSecretDeployment, OpenReset, FlagNotTrue}

\* A payload with nested counters only.
ThemeBody ==
  TelemetryBody(64, TRUE, Absent,
                Object(<<Group("theme", TRUE, <<Entry("dark", Delta(2))>>)>>))

TelemetrySeqRequests == TelemetryPostRequests \cup {Request(SameOriginFetch, ThemeBody)}

ResetHeaders ==
  TelemetryDeleteHeaders \cup
    {WithToken(SameOriginFetch, ShortSecret), WithToken(SameOriginFetch, MinimalSecret)}

InitTelemetry ==
  /\ budget = MaxTelemetryRequests
  /\ SHORT_URLS = EmptyMap
  /\ TELEMETRY = EmptyMap
  /\ cache = EmptyMap
  /\ background = {}
  /\ rateLimitMap = EmptyMap
  /\ checks = EmptyMap
  /\ now = 0
  /\ env \in TelemetryDeployments
  /\ pc = [p \in Procs |-> "idle"]
  /\ req = [p \in Procs |-> IdleReq]
  /\ out = NoResponse
  /\ nreq = 0
  /\ mints = <<>>
  /\ posted = EmptyMap
  /\ updates = {}
  /\ stale = EmptyMap

\* One request at a time: a Get or a Delete arrives when no Post is in
\* progress.
NextTelemetry ==
  \/ \E r \in TelemetrySeqRequests : TelemetryPostStart(1, r.headers, r.body)
  \/ TelemetryPostGet(1)
  \/ TelemetryPostPut(1)
  \/ pc[1] = "idle" /\ \E h \in TelemetryGetHeaders : TelemetryGet(h)
  \/ pc[1] = "idle" /\ \E h \in ResetHeaders : TelemetryDelete(h)

SpecTelemetry == InitTelemetry /\ [][NextTelemetry]_vars

\* The same requests, where the read of the aggregate inside a Post may
\* fail.
NextTelemetryFaults == NextTelemetry \/ TelemetryPostGetFails(1)

SpecTelemetryFaults == InitTelemetry /\ [][NextTelemetryFaults]_vars

\* ------------------------------------------------------------------------
\* Store writes that fail
\* ------------------------------------------------------------------------
MaxFaultRequests == 3

InitFaults == Start(MaxFaultRequests)

\* Requests arrive one after another; any write of a namespace may fail.
NextFaults ==
  \/ NextSeq
  \/ \E o \in req[1].todo : CreateWriteFails(1, o)
  \/ \E o \in req[1].todo : UpdateWriteFails(1, o)
  \/ TelemetryPostPutFails(1)
  \/ \E h \in TelemetryDeleteHeaders : TelemetryDeleteFails(h)

SpecFaults == InitFaults /\ [][NextFaults]_vars

\* ------------------------------------------------------------------------
\* Requests from every origin: one request after another, where create,
\* update and the three telemetry operations also arrive with each
\* combination of an Origin header (absent, the application, a development
\* origin, a foreign site) and a Sec-Fetch-Site header, and so do requests
\* for a short link from clients that are no browsers.
\* ------------------------------------------------------------------------
MaxOriginRequests == 3

ForeignOrigin == "https://evil.example"
Origins == {None, APP_ORIGIN, "http://localhost:5173", ForeignOrigin}
FetchSites == {None, "same-origin", "same-site", "cross-site"}
OriginHeaders ==
  {Headers(o, s, "application/json", ClientA) : o \in Origins, s \in FetchSites}

LinkOriginHeaders == {Headers(o, None, "*/*", ClientA) : o \in Origins}

InitOrigin == Start(MaxOriginRequests)

NextOrigin ==
  \/ NextSeq
  \/ \E h \in OriginHeaders : CreateStart(1, h, Body(64, TRUE, None, UrlA))
  \/ \E h \in OriginHeaders : UpdateStart(1, h, Body(64, TRUE, LegacyCode, UrlB))
  \/ \E h \in OriginHeaders : TelemetryPostStart(1, h, SaveClicksBody)
  \/ \E h \in LinkOriginHeaders : RedirectStart(1, h, LegacyCode)
  \/ \E h \in OriginHeaders : pc[1] = "idle" /\ TelemetryGet(h)
  \/ \E h \in OriginHeaders : pc[1] = "idle" /\ TelemetryDelete(WithToken(h, AdminSecret))

SpecOrigin == InitOrigin /\ [][NextOrigin]_vars

\* ------------------------------------------------------------------------
\* A crowded code space: every word code the generator can draw is taken
\* by a link minted earlier, and in one of the two initial stores the hex
\* fallback code is taken as well.  Requests arrive one after another.
\* ------------------------------------------------------------------------
MaxCrowdedRequests == 2

Minted(m, code, url) == MapPut(MapPut(m, CodeKey(code), url), HashKey(hashUrl(url)), code)

WordsTaken ==
  Minted(Minted(EmptyMap, AmberCode, "https://pt-onia.app/#c"),
         generateWordCode(<<"dew", "nova", "dew">>), "https://pt-onia.app/#d")
AllTaken == Minted(WordsTaken, generateHexFallbackCode(<<161, 178, 195, 212>>),
                   "https://pt-onia.app/#e")

InitCrowded ==
  /\ budget = MaxCrowdedRequests
  /\ SHORT_URLS \in {WordsTaken, AllTaken}
  /\ TELEMETRY = EmptyMap
  /\ cache = EmptyMap
  /\ background = {}
  /\ rateLimitMap = EmptyMap
  /\ checks = EmptyMap
  /\ now = 0
  /\ env = Production
  /\ pc = [p \in Procs |-> "idle"]
  /\ req = [p \in Procs |-> IdleReq]
  /\ out = NoResponse
  /\ nreq = 0
  /\ mints = <<>>
  /\ posted = EmptyMap
  /\ updates = {}
  /\ stale = EmptyMap

SpecCrowded == InitCrowded /\ [][NextSeq]_vars

\* ------------------------------------------------------------------------
\* Overlapping Updates: two requests that move a stored code to one of two
\* other URLs, their steps interleaved.
\* ------------------------------------------------------------------------
MaxUpdateRequests == 2

UrlC == "https://pt-onia.app/#c"

InitUpdates ==
  /\ budget = MaxUpdateRequests
  /\ SHORT_URLS \in {LegacyStore, WordStore}
  /\ TELEMETRY = EmptyMap
  /\ cache = EmptyMap
  /\ background = {}
  /\ rateLimitMap = EmptyMap
  /\ checks = EmptyMap
  /\ now = 0
  /\ env = Production
  /\ pc = [p \in Procs |-> "idle"]
  /\ req = [p \in Procs |-> IdleReq]
  /\ out = NoResponse
  /\ nreq = 0
  /\ mints = <<>>
  /\ posted = EmptyMap
  /\ updates = {}
  /\ stale = EmptyMap

NextUpdates ==
  \E p \in Procs :
    \/ \E c \in {LegacyCode, AmberCode}, u \in {UrlB, UrlC} :
         UpdateStart(p, SameOriginFetch, Body(64, TRUE, c, u))
    \/ UpdateRead(p)
    \/ \E o \in req[p].todo : UpdateWrite(p, o)
    \/ UpdateEvict(p)

SpecUpdates == InitUpdates /\ [][NextUpdates]_vars

\* ------------------------------------------------------------------------
\* Overlapping Posts: telemetry Posts only, their steps interleaved, and no
\* Delete.
\* ------------------------------------------------------------------------
MaxPostRequests == 3

InitPosts ==
  /\ budget = MaxPostRequests
  /\ SHORT_URLS = EmptyMap
  /\ TELEMETRY = EmptyMap
  /\ cache = EmptyMap
  /\ background = {}
  /\ rateLimitMap = EmptyMap
  /\ checks = EmptyMap
  /\ now = 0
  /\ env = Production
  /\ pc = [p \in Procs |-> "idle"]
  /\ req = [p \in Procs |-> IdleReq]
  /\ out = NoResponse
  /\ nreq = 0
  /\ mints = <<>>
  /\ posted = EmptyMap
  /\ updates = {}
  /\ stale = EmptyMap

UnitsBody == TelemetryBody(64, TRUE, Object(<<Entry("units_days", Delta(1))>>), Absent)

NextPosts ==
  \E p \in Procs :
    \/ \E body \in {SaveClicksBody, UnitsBody, ThemeBody} :
         TelemetryPostStart(p, SameOriginFetch, body)
    \/ TelemetryPostGet(p)
    \/ TelemetryPostPut(p)

SpecPosts == InitPosts /\ [][NextPosts]_vars

\* ------------------------------------------------------------------------
\* A nested group at its cap: the aggregate holds a theme group of 99 or of
\* 100 keys, written by earlier Posts, and Posts for new and for stored
\* keys arrive one after another.
\* ------------------------------------------------------------------------
MaxCapRequests == 3

StoredKey(i) == "k" \o ToString(i)
ThemeOf(n) == [key \in {StoredKey(i) : i \in 1..n} |-> Num(1)]
AlmostFull == [flat |-> EmptyMap, nested |-> MapPut(EmptyMap, "theme", ThemeOf(99))]
Full == [flat |-> EmptyMap, nested |-> MapPut(EmptyMap, "theme", ThemeOf(100))]

ThemePost(entries) == TelemetryBody(64, TRUE, Absent, Object(<<Group("theme", TRUE, entries)>>))
CapBodies ==
  {ThemePost(<<Entry("dark", Delta(2))>>),
   ThemePost(<<Entry("dark", Delta(1)), Entry("light", Delta(1))>>),
   ThemePost(<<Entry(StoredKey(1), Delta(3))>>),
   ThemePost(<<Entry("light", Delta(1)), Entry(StoredKey(1), Delta(1))>>)}

InitCap ==
  /\ budget = MaxCapRequests
  /\ SHORT_URLS = EmptyMap
  /\ TELEMETRY \in {MapPut(EmptyMap, TELEMETRY_KV_KEY, AlmostFull),
                    MapPut(EmptyMap, TELEMETRY_KV_KEY, Full)}
  /\ cache = EmptyMap
  /\ background = {}
  /\ rateLimitMap = EmptyMap
  /\ checks = EmptyMap
  /\ now = 0
  /\ env = Production
  /\ pc = [p \in Procs |-> "idle"]
  /\ req = [p \in Procs |-> IdleReq]
  /\ out = NoResponse
  /\ nreq = 0
  /\ mints = <<>>
  /\ posted = EmptyMap
  /\ updates = {}
  /\ stale = EmptyMap

NextCap ==
  \/ \E body \in CapBodies : TelemetryPostStart(1, SameOriginFetch, body)
  \/ TelemetryPostGet(1)
  \/ TelemetryPostPut(1)

SpecCap == InitCap /\ [][NextCap]_vars

\* ------------------------------------------------------------------------
\* Browser navigations: short links opened by a browser and by a client that
\* is no browser, and Updates between them, one request at a time.  A link
\* whose URL has a dollar sign in its fragment is stored as Create stores it.
\* ------------------------------------------------------------------------
MaxBrowseRequests == 3

UrlDollar == "https://pt-onia.app/#a$$b"
DollarStore ==
  MapPut(MapPut(EmptyMap, CodeKey(AmberCode), UrlDollar),
         HashKey(hashUrl(UrlDollar)), AmberCode)

InitBrowse ==
  /\ budget = MaxBrowseRequests
  /\ SHORT_URLS \in {WordStore, DollarStore}
  /\ TELEMETRY = EmptyMap
  /\ cache = EmptyMap
  /\ background = {}
  /\ rateLimitMap = EmptyMap
  /\ checks = EmptyMap
  /\ now = 0
  /\ env = Production
  /\ pc = [p \in Procs |-> "idle"]
  /\ req = [p \in Procs |-> IdleReq]
  /\ out = NoResponse
  /\ nreq = 0
  /\ mints = <<>>
  /\ posted = EmptyMap
  /\ updates = {}
  /\ stale = EmptyMap

NextBrowse ==
  \/ \E h \in LinkHeaders : RedirectStart(1, h, AmberCode)
  \/ \E outcome \in FetchOutcomes : RedirectFetch(1, outcome)
  \/ RedirectFetchErrorPage(1)
  \/ RedirectGet(1)
  \/ \E b \in background : BackgroundPut(b)
  \/ \E b \in background : BackgroundPutFails(b)
  \/ \E u \in {UrlB, UrlDollar} : UpdateStart(1, SameOriginFetch, Body(64, TRUE, AmberCode, u))
  \/ UpdateRead(1)
  \/ \E o \in req[1].todo : UpdateWrite(1, o)
  \/ UpdateEvict(1)

SpecBrowse == InitBrowse /\ [][NextBrowse]_vars

\* ------------------------------------------------------------------------
\* Reads that fail: short links opened one after another, where any read of
\* the link namespace and the lookup in the edge cache may throw.
\* ------------------------------------------------------------------------
NextReads ==
  \/ \E h \in LinkHeaders, c \in {AmberCode, LegacyCode} : RedirectStart(1, h, c)
  \/ \E h \in LinkHeaders, c \in {AmberCode, LegacyCode} : RedirectLookupFails(1, h, c)
  \/ RedirectRetry(1)
  \/ RedirectRetryFails(1)
  \/ \E outcome \in FetchOutcomes : RedirectFetch(1, outcome)
  \/ RedirectGet(1)
  \/ RedirectGetFails(1)
  \/ \E b \in background : BackgroundPut(b)

SpecReads == InitBrowse /\ [][NextReads]_vars

\* ------------------------------------------------------------------------
\* A full rate-limit table: as many clients as the table holds before it is
\* pruned have each made one create at time 0; one millisecond later
\* ClientA has made all but one of the creates of a window.  Creates of
\* ClientA and ClientB follow, and the clock advances by a window.
\* ------------------------------------------------------------------------
MaxPruneRequests == 5

CrowdKey(i) == "shortenCreate:10.0.0." \o ToString(i)
CrowdKeys == {CrowdKey(i) : i \in 1..PRUNE_THRESHOLD}
FullTable ==
  MapPut([key \in CrowdKeys |-> [windowStart |-> 0, count |-> 1]],
         "shortenCreate:" \o ClientA,
         [windowStart |-> 1, count |-> RATE_LIMITS["shortenCreate"] - 1])
FullChecks ==
  [key \in DOMAIN FullTable |->
     [i \in 1..FullTable[key].count |->
        [at |-> FullTable[key].windowStart, limited |-> FALSE]]]

InitPrune ==
  /\ budget = MaxPruneRequests
  /\ SHORT_URLS = LegacyStore
  /\ TELEMETRY = EmptyMap
  /\ cache = EmptyMap
  /\ background = {}
  /\ rateLimitMap = FullTable
  /\ checks = FullChecks
  /\ now = 1
  /\ env = Production
  /\ pc = [p \in Procs |-> "idle"]
  /\ req = [p \in Procs |-> IdleReq]
  /\ out = NoResponse
  /\ nreq = 0
  /\ mints = <<>>
  /\ posted = EmptyMap
  /\ updates = {}
  /\ stale = EmptyMap

NextPrune ==
  \/ \E h \in LimiterHeaders : CreateStart(1, h, UnparsedBody)
  \/ \E d \in TickSteps : Tick(d)

SpecPrune == InitPrune /\ [][NextPrune]_vars

\* ------------------------------------------------------------------------
\* Properties
\* ------------------------------------------------------------------------
IsCodeKey(key) == StartsWith(key, "code:")

\* The request of slot p takes the step.
Acts(p) == pc'[p] # pc[p] \/ req'[p].todo # req[p].todo

\* The codes that Updates have written, and the URLs they replaced or wrote.
UpdatedCodes == {u.code : u \in updates}
UpdatedUrls == {u.old : u \in updates} \cup {u.new : u \in updates}

\* The Creates answered existing=false before the answer in out.
EarlierMints ==
  IF out.kind = "create" /\ out.status = 200 /\ out.existing = FALSE
  THEN SubSeq(mints, 1, Len(mints) - 1)
  ELSE mints

\* C1: Create is idempotent.  When requests arrive one after another and no
\* Update has replaced or written the URL, the first Create of a URL answers
\* existing=false with a code no earlier Create returned, and every later
\* Create of the URL answers existing=true with the code of the first.
C1_CreateIdempotent ==
  (out.kind = "create" /\ out.status = 200 /\ out.asked.url \notin UpdatedUrls) =>
    LET earlier == EarlierMints
        mine == {earlier[i][1] : i \in {j \in 1..Len(earlier) : earlier[j][2] = out.asked.url}}
        all == {earlier[i][1] : i \in 1..Len(earlier)}
    IN  IF mine = {}
        THEN out.existing = FALSE /\ out.code \notin all
        ELSE out.existing = TRUE /\ mine = {out.code}

\* C2: every code a Create returned with existing=false resolves to the URL
\* submitted, and a redirect request for it redirects to that URL or embeds
\* it, as long as no Update has written the code.
C2_CreatedCodeResolves ==
  \A i \in 1..Len(mints) :
    LET code == mints[i][1]
        url == mints[i][2]
        answer == ResolveAnswer(SHORT_URLS, env.SHORT_URLS, code, ApiClient)
    IN  code \notin UpdatedCodes =>
          /\ answer.status = 200
          /\ answer.url = url
          /\ (out.kind = "redirect" /\ out.asked.code = code) =>
                \/ out.status = 302 /\ out.location = url
                \/ out.status = 200 /\ out.hint = EscapeAttr(url)

\* C3: a Create never writes code:<code> onto a code that is already mapped,
\* and no two Creates answered existing=false return the same code, also
\* when requests overlap.
C3_CreateWritesFreshCode ==
  [][ /\ \A p \in Procs :
           (pc[p] = "create_write" /\ Acts(p)) =>
              \A o \in req[p].todo \ req'[p].todo :
                 IsCodeKey(o.key) => o.key \notin DOMAIN SHORT_URLS
      /\ \A i, j \in 1..Len(mints') : i # j => mints'[i][1] # mints'[j][1]
    ]_vars

\* C4: when requests arrive one after another, an Update answered
\* updated=true leaves the code resolving to the new URL.
C4_UpdateThenResolve ==
  (out.kind = "update" /\ out.status = 200 /\ out.updated = TRUE) =>
    LET answer == ResolveAnswer(SHORT_URLS, env.SHORT_URLS, out.asked.code, ApiClient)
    IN  answer.status = 200 /\ answer.url = out.asked.url

C4_Witness ==
  /\ out.kind = "update" /\ out.status = 200 /\ out.updated = TRUE
  /\ out.asked.url = UrlB

\* C5: no step of an Update changes what Resolve answers for a code other
\* than the one it updates.
C5_UpdateFrame ==
  [][\A p \in Procs :
       (req[p].kind = "update" /\ Acts(p)) =>
          \A c \in AskedCodes \ {req[p].code} :
             ResolveAnswer(SHORT_URLS', env.SHORT_URLS, c, ApiClient)
               = ResolveAnswer(SHORT_URLS, env.SHORT_URLS, c, ApiClient)]_vars

\* An Update has written all its keys while another code is mapped.
C5_Witness ==
  \E p \in Procs :
    /\ pc[p] = "update_evict"
    /\ \E c \in AskedCodes \ {req[p].code} : CodeKey(c) \in DOMAIN SHORT_URLS

\* C6: an Update whose URL is the one stored for the code answers
\* updated=false and changes neither the link namespace nor the cache.
C6_UpdateUnchanged ==
  [][\A p \in Procs :
       /\ (pc[p] = "idle" /\ pc'[p] = "update_read") =>
             UNCHANGED <<SHORT_URLS, cache, background>>
       /\ (pc[p] = "update_read" /\ Acts(p)
             /\ MapGet(SHORT_URLS, CodeKey(req[p].code)) = req[p].url) =>
               /\ out'.kind = "update" /\ out'.status = 200 /\ out'.updated = FALSE
               /\ pc'[p] = "idle"
               /\ UNCHANGED <<SHORT_URLS, cache, background>>]_vars

C6_Witness ==
  /\ out.kind = "update" /\ out.status = 200 /\ out.updated = FALSE
  /\ DOMAIN cache # {}

\* C7: an Update of a well-formed code that has no mapping answers 404 and
\* writes nothing: no code entry, no reverse entry, no cache change.
C7_UpdateNotFound ==
  [][\A p \in Procs :
       /\ (pc[p] = "idle" /\ pc'[p] = "update_read") =>
             /\ isValidShortCode(req'[p].code)
             /\ UNCHANGED <<SHORT_URLS, cache, background>>
       /\ (pc[p] = "update_read" /\ Acts(p)
             /\ CodeKey(req[p].code) \notin DOMAIN SHORT_URLS) =>
               /\ out'.kind = "update" /\ out'.status = 404
               /\ pc'[p] = "idle"
               /\ UNCHANGED <<SHORT_URLS, cache, background>>]_vars

C7_Witness ==
  /\ out.kind = "update" /\ out.status = 404
  /\ isValidShortCode(out.asked.code)
  /\ CodeKey(out.asked.code) \notin DOMAIN SHORT_URLS

\* C8: no step of any request (Create, Update, Resolve, redirect, telemetry)
\* and no step of the cache removes a code: a code that has a mapping keeps
\* one.
C8_CodesNeverRemoved ==
  [][\A key \in DOMAIN SHORT_URLS :
       IsCodeKey(key) => key \in DOMAIN SHORT_URLS']_vars

\* An Update has deleted a reverse entry, a telemetry request has written
\* the aggregate, and the codes are all still there.
C8_Witness ==
  /\ updates # {}
  /\ TELEMETRY_KV_KEY \in DOMAIN TELEMETRY
  /\ \E u \in updates : HashKey(hashUrl(u.old)) \notin DOMAIN SHORT_URLS
  /\ \A u \in updates : CodeKey(u.code) \in DOMAIN SHORT_URLS

\* C9: no open redirect.  Every URL stored for a code and every cached
\* redirect has the service's origin, so has every redirect target and hint
\* a redirect request answers, and a Create or Update that carries a URL of
\* another origin is never answered 200.
C9_NoOpenRedirect ==
  /\ \A key \in DOMAIN SHORT_URLS :
       IsCodeKey(key) => UrlOrigin(SHORT_URLS[key]) = DOMAIN_
  /\ \A key \in DOMAIN cache : UrlOrigin(cache[key].location) = DOMAIN_
  /\ out.kind = "redirect" =>
       /\ out.location # None => UrlOrigin(out.location) = DOMAIN_
       /\ out.hint # None => UrlOrigin(out.hint) = DOMAIN_
  /\ (out.kind \in {"create", "update"} /\ out.asked.url \in ForeignUrls) =>
       out.status = 400

\* A URL of another origin has been refused while links are stored.
C9_Witness ==
  /\ out.kind \in {"create", "update"}
  /\ out.asked.url \in ForeignUrls
  /\ out.status = 400
  /\ \E key \in DOMAIN SHORT_URLS : IsCodeKey(key)

\* C10: once an Update has answered updated=true, no redirect request that
\* arrives later is answered with a redirect to the URL it replaced.
C10_NoStaleRedirect ==
  (out.kind = "redirect" /\ out.status = 302) => out.location \notin out.superseded

\* The window of check i of a key's checks, counted as the specification
\* counts it: a check opens a window when it is the first, or when the age
\* of the window of the check before exceeds the window length; n is the
\* number of the check within its window.
RECURSIVE WindowOf(_, _)
WindowOf(log, i) ==
  IF i = 1 THEN [start |-> log[1].at, n |-> 1]
  ELSE LET w == WindowOf(log, i - 1)
       IN  IF log[i].at - w.start > RATE_LIMIT_WINDOW_MS
           THEN [start |-> log[i].at, n |-> 1]
           ELSE [w EXCEPT !.n = @ + 1]

\* C11: rate limiting per (bucket, client).  Whenever the limiter answers a
\* check, the check is rejected exactly when it is beyond the ceiling-th of
\* its window, and the request is answered 429 exactly when it is rejected:
\* the first N checks of a window pass, check N+1 is rejected, and the first
\* check after the window has elapsed passes whatever was rejected before.
C11_FixedWindow ==
  [][\A key \in DOMAIN checks' :
       (key \notin DOMAIN checks \/ checks'[key] # checks[key]) =>
          LET log == checks'[key]
              last == log[Len(log)]
          IN  /\ last.limited <=> WindowOf(log, Len(log)).n > RATE_LIMITS[BucketOf(key)]
              /\ last.limited <=> out'.status = 429]_vars

\* A client has made its five creates, was rejected, and passes again in
\* the next window.
C11_Witness ==
  \E key \in DOMAIN checks :
    LET log == checks[key]
        N == RATE_LIMITS[BucketOf(key)]
    IN  /\ Len(log) >= N + 2
        /\ \A i \in 1..N : ~log[i].limited
        /\ log[N + 1].limited
        /\ ~log[Len(log)].limited
        /\ log[1].at = log[N + 1].at

\* The statuses of a validation, origin, authorization or rate-limit failure.
Rejections == {400, 403, 413, 429}

\* The response r answers a request with one of the statuses.
Answers(r, statuses) == r.kind # None /\ r.status \in statuses

\* C12: a step that answers a request with 400, 403, 413 or 429 leaves the
\* link namespace, the telemetry namespace, the edge cache and the cache
\* writes in flight as they were, and it is the first step of the request
\* it answers: no step of the request that reads a namespace has been taken.
C12_RejectionsTouchNothing ==
  [][Answers(out', Rejections) =>
       /\ UNCHANGED <<SHORT_URLS, TELEMETRY, cache, background>>
       /\ pc' = pc
       /\ \A p \in Procs : req'[p] = req[p]]_vars

\* Each of the four statuses has been answered, the last of them a 429, by
\* a worker that holds a link, a cache entry and telemetry counters.
C12_Witness ==
  /\ Answers(out, {429})
  /\ \E key \in DOMAIN SHORT_URLS : IsCodeKey(key)
  /\ StoredCounters # EmptyCounters
  /\ cache # EmptyMap

\* The groups of a payload, and the entries it has for a group.
GroupsOf(payload) ==
  IF payload.nested.kind = "object"
  THEN {payload.nested.entries[i].group : i \in 1..Len(payload.nested.entries)}
  ELSE {}

GroupEntries(payload, group) ==
  IF payload.nested.kind = "object"
     /\ \E i \in 1..Len(payload.nested.entries) :
           payload.nested.entries[i].group = group /\ payload.nested.entries[i].plain
  THEN LET i == CHOOSE i \in 1..Len(payload.nested.entries) :
                   payload.nested.entries[i].group = group
       IN  payload.nested.entries[i].entries
  ELSE <<>>

GroupOf(counters, group) ==
  IF group \in DOMAIN counters.nested THEN counters.nested[group] ELSE EmptyMap

\* Key k has the same presence and value in maps m and n.
SameAt(m, n, k) == (k \in DOMAIN m <=> k \in DOMAIN n) /\ (k \in DOMAIN m => m[k] = n[k])

\* The posts answered 200 whose payload the response carries.
Posted == out.kind = "telemetry_post" /\ out.status = 200

\* C13: with requests one after another, when a Post is answered 200 every
\* flat key and every key of a nested group is stored after
\* the Post as it was before it, unless the payload has an entry for it
\* that is valid (allow-listed flat key, or safe key of an allow-listed
\* group, with a delta from 0 to 1e9): then it is stored as the value
\* before, 0 when absent, plus the valid deltas.  (No group of the model
\* comes near MAX_NESTED_KEYS_PER_GROUP keys.)
C13_PostFilters ==
  Posted =>
       LET before == out.before
           after == StoredCounters
           flat == FlatEntries(out.payload)
       IN  /\ \A k \in KeysOf(flat) \cup DOMAIN before.flat \cup DOMAIN after.flat :
                IF k \in ALLOWED_FLAT_KEYS /\ HasValid(flat, k)
                THEN /\ k \in DOMAIN after.flat
                     /\ after.flat[k] = Count(before.flat, k) + SumFor(flat, k, 1)
                ELSE SameAt(before.flat, after.flat, k)
           /\ \A g \in GroupsOf(out.payload) \cup DOMAIN before.nested \cup DOMAIN after.nested :
                LET entries == GroupEntries(out.payload, g)
                    old == GroupOf(before, g)
                    new == GroupOf(after, g)
                IN  \A k \in KeysOf(entries) \cup DOMAIN old \cup DOMAIN new :
                      IF /\ g \in ALLOWED_NESTED_GROUPS
                         /\ isSafeNestedMetricKey(k)
                         /\ HasValid(entries, k)
                      THEN /\ k \in DOMAIN new
                           /\ new[k] = Num((IF k \in DOMAIN old THEN old[k].value ELSE 0)
                                             + SumFor(entries, k, 1))
                      ELSE SameAt(old, new, k)

\* C14: with requests one after another, between requests a Get reports
\* for every allow-listed flat key the sum of the deltas in range that the
\* Posts answered 200 since the last reset carried for it.
C14_DeltasAccumulate ==
  pc[1] = "idle" =>
    LET answer == TelemetryGetAnswer(TELEMETRY, env.TELEMETRY, SameOriginFetch)
    IN  /\ answer.status = 200
        /\ \A k \in ALLOWED_FLAT_KEYS : Count(answer.counters.flat, k) = Count(posted, k)

\* The second of two Posts of saveClicks: 2 has been answered, and the
\* aggregate holds saveClicks: 4.
C14_Witness ==
  /\ Posted
  /\ out.payload = SaveClicksBody
  /\ Count(out.before.flat, "saveClicks") = 2
  /\ Count(StoredCounters.flat, "saveClicks") = 4
  /\ Count(posted, "saveClicks") = 4

\* The deployment's secret has at least 16 characters and the token is it.
TokenMatches(token) ==
  /\ env.TELEMETRY_ADMIN_TOKEN # None
  /\ Len(env.TELEMETRY_ADMIN_TOKEN) >= 16
  /\ token = env.TELEMETRY_ADMIN_TOKEN

\* C15: a Delete is answered 403 and leaves the stored aggregate as it was
\* unless the insecure-reset flag is 'true' or the request's admin token
\* equals a configured secret of at least 16 characters; with a secret of
\* fewer than 16 characters and no flag, every Delete is answered 403,
\* whatever its token.
C15_ResetNeedsAuthority ==
  [][out'.kind = "telemetry_delete" =>
       /\ (env.ALLOW_UNAUTHENTICATED_TELEMETRY_RESET # "true" /\ ~TokenMatches(out'.token))
            => (out'.status = 403 /\ TELEMETRY' = TELEMETRY)
       /\ (/\ env.ALLOW_UNAUTHENTICATED_TELEMETRY_RESET # "true"
           /\ env.TELEMETRY_ADMIN_TOKEN # None
           /\ Len(env.TELEMETRY_ADMIN_TOKEN) < 16)
            => (out'.status = 403 /\ TELEMETRY' = TELEMETRY)]_vars

\* A Delete that carries the deployment's secret of 15 characters has been
\* refused while counters are stored.
C15_Witness ==
  /\ out.kind = "telemetry_delete"
  /\ out.status = 403
  /\ out.error = "Unauthorized"
  /\ env.TELEMETRY_ADMIN_TOKEN = ShortSecret
  /\ out.token = ShortSecret
  /\ StoredCounters # EmptyCounters

\* C16: when a Delete has been answered 200 and no request has been taken
\* up since, a Get is answered with the empty aggregate.
C16_ResetEmptiesAggregate ==
  (out.kind = "telemetry_delete" /\ out.status = 200) =>
    LET answer == TelemetryGetAnswer(TELEMETRY, env.TELEMETRY, SameOriginFetch)
    IN  answer.status = 200 /\ answer.counters = EmptyCounters

\* The Delete replaced an aggregate that held flat counters and counters of
\* a group.
C16_Witness ==
  /\ out.kind = "telemetry_delete"
  /\ out.status = 200
  /\ out.before.flat # EmptyMap
  /\ \E g \in DOMAIN out.before.nested : out.before.nested[g] # EmptyMap

\* The code is malformed or no URL is stored for it.
Unresolvable(code) == ~isValidShortCode(code) \/ CodeKey(code) \notin DOMAIN SHORT_URLS

\* The responses the edge cache holds or is about to be handed.
CachedOrInFlight ==
  {[key |-> key, response |-> cache[key]] : key \in DOMAIN cache} \cup background

\* C17: a GET /s/<code> answered while the code is malformed or unmapped is
\* answered 302 to the home origin and adds nothing to the edge cache or to
\* the cache writes in flight; no cached response redirects to the home
\* origin, and every cached path is the path of a well-formed, mapped code.
C17_UnknownCodeGoesHome ==
  [][/\ (out'.kind = "redirect" /\ Unresolvable(out'.asked.code)) =>
          /\ out'.status = 302
          /\ out'.location = DOMAIN_
          /\ UNCHANGED <<cache, background>>
     /\ \A e \in CachedOrInFlight' :
          /\ e.response.location # DOMAIN_
          /\ \E code \in AskedCodes :
                /\ e.key = ShortPath(code)
                /\ isValidShortCode(code)
                /\ CodeKey(code) \in DOMAIN SHORT_URLS']_vars

\* A client that is no browser has been sent home for a well-formed code
\* that nothing is stored for, by a worker whose namespace is bound.
C17_Witness ==
  /\ out.kind = "redirect"
  /\ out.status = 302
  /\ out.location = DOMAIN_
  /\ ~AcceptsHtml([Accept |-> out.accept])
  /\ isValidShortCode(out.asked.code)
  /\ CodeKey(out.asked.code) \notin DOMAIN SHORT_URLS
  /\ env.SHORT_URLS

Idle == \A p \in Procs : pc[p] = "idle"

IsHashKey(key) == StartsWith(key, "hash:")

\* C18: with requests one after another and writes that may fail, between
\* requests every code a hash:<digest> entry names has a code:<code> entry,
\* and a Create answered existing=true returns a code that Resolve finds.
C18_ReverseEntryHasCode ==
  /\ Idle => \A key \in DOMAIN SHORT_URLS :
               IsHashKey(key) => CodeKey(SHORT_URLS[key]) \in DOMAIN SHORT_URLS
  /\ (out.kind = "create" /\ out.status = 200 /\ out.existing = TRUE) =>
       ResolveAnswer(SHORT_URLS, env.SHORT_URLS, out.code, ApiClient).status # 404

\* C19: a request whose namespace write failed on every attempt of
\* withRetry is answered by the worker, with status 500.
C19_ExhaustedWriteAnswers500 ==
  (out.kind # None /\ out.exhausted) => (out.status = 500 /\ out.error = "Server error")

LinkKinds == {"create", "update", "resolve"}
TelemetryKinds == {"telemetry_post", "telemetry_get", "telemetry_delete"}

\* The binding the endpoint of a response needs is absent.
BindingAbsent(kind) ==
  \/ kind \in LinkKinds /\ ~env.SHORT_URLS
  \/ kind \in TelemetryKinds /\ ~env.TELEMETRY

ConfigurationErrors == {"KV namespace not configured", "TELEMETRY KV namespace not configured"}

\* C20: a request to a store-backed endpoint whose binding is absent, when
\* it is not refused by the origin gate, is answered 500 with a
\* configuration error, and the step that answers it leaves both
\* namespaces, the cache, the cache writes in flight and the rate-limit
\* table as they were.
C20_UnboundAnswers500 ==
  [][(BindingAbsent(out'.kind) /\ out'.status # 403) =>
       /\ out'.status = 500
       /\ out'.error \in ConfigurationErrors
       /\ UNCHANGED <<SHORT_URLS, TELEMETRY, cache, background, rateLimitMap>>]_vars

\* The paths of the API routes, and the origins the service allows; a
\* request without Origin counts as the application's.
IsApiPath(path) ==
  path = "/api/telemetry" \/ path = "/api/shorten" \/ StartsWith(path, "/api/resolve/")

OriginAllowed(origin) ==
  origin = None \/ origin = "https://pt-onia.app" \/ origin \in DEV_ALLOWED_ORIGINS

\* C21: the step that answers an OPTIONS request leaves both namespaces,
\* the cache, the cache writes in flight, the rate-limit table and every
\* request in progress as they were; the answer is 404 for a path that is
\* no API path, else 403 for an origin that is not allowed, else 200 with
\* Access-Control-Allow-Origin and Access-Control-Allow-Methods.
C21_PreflightTouchesNothing ==
  [][out'.kind = "preflight" =>
       /\ UNCHANGED <<SHORT_URLS, TELEMETRY, cache, background, rateLimitMap, pc, req>>
       /\ IF ~IsApiPath(out'.path) THEN out'.status = 404
          ELSE IF ~OriginAllowed(out'.origin) THEN out'.status = 403
          ELSE /\ out'.status = 200
               /\ out'.acao = (IF out'.origin = None THEN "https://pt-onia.app"
                               ELSE out'.origin)
               /\ {"GET", "POST", "OPTIONS"} \subseteq out'.acam]_vars

\* A preflight for /api/shorten from a development origin has been answered
\* 200 by a worker that holds a link, counters and a rate-limit table.
C21_Witness ==
  /\ out.kind = "preflight"
  /\ out.status = 200
  /\ out.path = "/api/shorten"
  /\ out.origin = "http://localhost:5173"
  /\ "PUT" \in out.acam
  /\ SHORT_URLS # EmptyMap
  /\ StoredCounters # EmptyCounters
  /\ rateLimitMap # EmptyMap

\* The operations behind the same-origin gate.
GatedKinds ==
  {"create", "update", "telemetry_post", "telemetry_get", "telemetry_delete"}

\* C22: a request for create, update or a telemetry operation that carries
\* an Origin header outside the allow-list is answered 403 'Forbidden
\* origin', whatever its Sec-Fetch-Site header says.
C22_ForeignOriginRefused ==
  (out.kind \in GatedKinds /\ out.origin # None /\ ~OriginAllowed(out.origin))
    => (out.status = 403 /\ out.error = "Forbidden origin")

\* A create from a foreign origin with Sec-Fetch-Site: cross-site has been
\* refused.
C22_Refused ==
  /\ out.kind = "create"
  /\ out.origin = ForeignOrigin
  /\ out.site = "cross-site"
  /\ out.status = 403
  /\ out.error = "Forbidden origin"

\* C23: a response that carries Access-Control-Allow-Origin answers a
\* request whose origin is allowed (no Origin header, the application or a
\* development origin); redirects served from the edge cache included.
C23_CorsOnlyForAllowedOrigin ==
  (out.kind # None /\ out.acao # None) => OriginAllowed(out.origin)

\* A redirect has been answered to a foreign origin, without CORS headers.
C23_ForeignRedirect ==
  /\ out.kind = "redirect"
  /\ out.origin = ForeignOrigin
  /\ out.status = 302
  /\ out.location = UrlA
  /\ out.acao = None

\* The strings the link store, the telemetry namespace and the edge cache
\* hold: keys, values, counter names, and the fields of cached responses.
LinkStrings == DOMAIN SHORT_URLS \cup {SHORT_URLS[k] : k \in DOMAIN SHORT_URLS}

TelemetryStrings ==
  DOMAIN TELEMETRY
    \cup UNION {DOMAIN TELEMETRY[k].flat \cup DOMAIN TELEMETRY[k].nested
                 \cup UNION {DOMAIN TELEMETRY[k].nested[g] : g \in DOMAIN TELEMETRY[k].nested}
               : k \in DOMAIN TELEMETRY}

CacheStrings ==
  DOMAIN cache
    \cup UNION {{cache[k].error, cache[k].code, cache[k].url, cache[k].location,
                 cache[k].hint, cache[k].acao} : k \in DOMAIN cache}

\* The client identifiers of the requests.
ClientIps == {ClientA, ClientB}

\* C24: no key and no value of the link store, the telemetry namespace or
\* the edge cache contains the CF-Connecting-IP of a request.
C24_ClientIpNotPersisted ==
  \A s \in LinkStrings \cup TelemetryStrings \cup CacheStrings :
    \A ip \in ClientIps : ~Includes(s, ip, 1)

\* A link has been minted, counters posted and a redirect cached by the
\* client whose address keys the rate-limit table.
C24_Witness ==
  /\ Len(mints) > 0
  /\ StoredCounters # EmptyCounters
  /\ cache # EmptyMap
  /\ \E key \in DOMAIN rateLimitMap : Includes(key, ClientA, 1)

\* C25: the code of every Create answered 200 passes isValidShortCode, the
\* validation that Resolve, Update and the redirect path apply.
C25_CreatedCodeIsValid ==
  (out.kind = "create" /\ out.status = 200) => isValidShortCode(out.code)

\* A Create has returned a word code it minted.
C25_WordCodeMinted ==
  /\ out.kind = "create"
  /\ out.status = 200
  /\ out.existing = FALSE
  /\ out.code \in WordCodes
  /\ isValidShortCode(out.code)

\* The Create of slot p probes a word candidate, or the hex fallback code.
ProbesWord(p) ==
  pc[p] = "create_probe" /\ (pc'[p] # pc[p] \/ req'[p].attempts # req[p].attempts)
ProbesHex(p) == pc[p] = "create_hex" /\ pc'[p] # pc[p]

\* C26: the collision policy of Create.  A word probe is one of at most
\* ten; it either finds a word code with no mapping and goes on to write
\* that code, or counts one more collision, and goes to the hex fallback
\* exactly when ten have collided.  The hex probe happens once: it goes on
\* to write the hex code when that has no mapping, and otherwise answers
\* 500 'Failed to generate unique code'.  No probe writes the store, so
\* the 500 follows no write of the request; each probing step raises the
\* number of probes made, which never exceeds 11.
C26_CollisionPolicy ==
  [][\A p \in Procs :
       /\ ProbesWord(p) =>
            /\ req[p].attempts < 10
            /\ SHORT_URLS' = SHORT_URLS
            /\ \/ /\ pc'[p] = "create_write"
                  /\ WORD_CODE_REGEX(req'[p].code)
                  /\ CodeKey(req'[p].code) \notin DOMAIN SHORT_URLS
               \/ /\ pc'[p] = "create_probe"
                  /\ req'[p].attempts = req[p].attempts + 1
                  /\ req'[p].attempts < 10
               \/ /\ pc'[p] = "create_hex"
                  /\ req'[p].attempts = 10
       /\ ProbesHex(p) =>
            /\ req[p].attempts = 10
            /\ SHORT_URLS' = SHORT_URLS
            /\ \/ /\ pc'[p] = "create_write"
                  /\ req'[p].code \in HexCodes
                  /\ CodeKey(req'[p].code) \notin DOMAIN SHORT_URLS
               \/ /\ pc'[p] = "idle"
                  /\ out'.kind = "create"
                  /\ out'.status = 500
                  /\ out'.error = "Failed to generate unique code"
                  /\ \E c \in HexCodes : CodeKey(c) \in DOMAIN SHORT_URLS
       /\ (pc[p] = "create_dedup" /\ pc'[p] # pc[p]) => SHORT_URLS' = SHORT_URLS]_vars

\* A Create has given up after ten word probes and the hex probe.
C26_Exhausted ==
  /\ out.kind = "create"
  /\ out.status = 500
  /\ out.error = "Failed to generate unique code"
  /\ \E c \in HexCodes : CodeKey(c) \in DOMAIN SHORT_URLS

\* What the dedup check of a Create of url would answer in this state: the
\* word code it returns with existing=true, or None when it goes on to mint.
DedupAnswer(url) ==
  LET existingCode == MapGet(SHORT_URLS, HashKey(hashUrl(url)))
  IN  IF existingCode # None /\ WORD_CODE_REGEX(existingCode) THEN existingCode ELSE None

\* C27: legacy migration.  When requests arrive one after another and a
\* Create of url has found hash(url) mapped to a legacy-shaped code L, its
\* answer is existing=false with a new word code W, hash(url) maps to W,
\* L and W both resolve to url, and a further Create of url would answer W
\* with existing=true.
C27_LegacyMigration ==
  (out.kind = "create" /\ out.status = 200 /\ SHORT_CODE_REGEX(out.found)) =>
    LET url == out.asked.url
        L == out.found
        W == out.code
    IN  /\ out.existing = FALSE
        /\ WORD_CODE_REGEX(W)
        /\ MapGet(SHORT_URLS, HashKey(hashUrl(url))) = W
        /\ MapGet(SHORT_URLS, CodeKey(L)) = url
        /\ ResolveAnswer(SHORT_URLS, env.SHORT_URLS, L, ApiClient).url = url
        /\ ResolveAnswer(SHORT_URLS, env.SHORT_URLS, W, ApiClient).status = 200
        /\ ResolveAnswer(SHORT_URLS, env.SHORT_URLS, W, ApiClient).url = url
        /\ DedupAnswer(url) = W

\* A Create has migrated the legacy link to a word code.
C27_Migrated ==
  /\ out.kind = "create"
  /\ out.status = 200
  /\ out.found = LegacyCode
  /\ out.code \in WordCodes
  /\ DedupAnswer(out.asked.url) = out.code
  /\ MapGet(SHORT_URLS, CodeKey(LegacyCode)) = out.asked.url

\* C28: two Creates of one URL that both missed the dedup check and both
\* succeeded.  When the second has answered, no request is in progress and
\* no Update has written the two codes or the URL, the two codes differ,
\* each resolves to the URL, and hash(url) maps to one of the two.
C28_ConcurrentCreates ==
  (out.kind = "create" /\ out.status = 200 /\ out.existing = FALSE /\ Idle) =>
    \A i \in 1..(Len(mints) - 1) :
      LET url == out.asked.url
          first == mints[i][1]
          second == out.code
      IN  (mints[i][2] = url /\ {first, second} \cap UpdatedCodes = {}
             /\ url \notin UpdatedUrls) =>
            /\ first # second
            /\ ResolveAnswer(SHORT_URLS, env.SHORT_URLS, first, ApiClient).url = url
            /\ ResolveAnswer(SHORT_URLS, env.SHORT_URLS, second, ApiClient).url = url
            /\ MapGet(SHORT_URLS, HashKey(hashUrl(url))) \in {first, second}

\* Two overlapping Creates of one URL have returned two different word
\* codes, both mapped to the URL.
C28_TwoCodes ==
  /\ out.kind = "create"
  /\ out.status = 200
  /\ out.existing = FALSE
  /\ Len(mints) = 2
  /\ mints[1][2] = mints[2][2]
  /\ mints[1][1] # mints[2][1]
  /\ {mints[1][1], mints[2][1]} \subseteq WordCodes
  /\ MapGet(SHORT_URLS, CodeKey(mints[1][1])) = mints[1][2]
  /\ MapGet(SHORT_URLS, CodeKey(mints[2][1])) = mints[2][2]
  /\ out.found = None

\* C29: when requests arrive one after another, an Update answered
\* updated=true that replaced oldUrl by newUrl leaves hash(newUrl) mapped to
\* the code and no entry for hash(oldUrl): a Create of newUrl would answer
\* the code with existing=true when the code is a word code, a Create of
\* oldUrl would go on to mint; and no Create that mints returns a code an
\* Update has written.
C29_UpdateRepointsIndex ==
  /\ (out.kind = "update" /\ out.status = 200 /\ out.updated = TRUE) =>
       LET code == out.asked.code
           newUrl == out.asked.url
           oldUrl == out.found
       IN  /\ oldUrl # newUrl
           /\ MapGet(SHORT_URLS, HashKey(hashUrl(newUrl))) = code
           /\ HashKey(hashUrl(oldUrl)) \notin DOMAIN SHORT_URLS
           /\ WORD_CODE_REGEX(code) => DedupAnswer(newUrl) = code
           /\ DedupAnswer(oldUrl) = None
  /\ (out.kind = "create" /\ out.status = 200 /\ out.existing = FALSE) =>
       out.code \notin UpdatedCodes

\* An Update has moved a word code to another URL, and the Create of the
\* old URL that followed has minted another code.
C29_Witness ==
  /\ out.kind = "create"
  /\ out.status = 200
  /\ out.existing = FALSE
  /\ \E u \in updates :
        /\ u.old = out.asked.url
        /\ WORD_CODE_REGEX(u.code)
        /\ u.code # out.code
        /\ MapGet(SHORT_URLS, CodeKey(u.code)) = u.new
        /\ DedupAnswer(u.new) = u.code

\* C30: the reverse entry an Update removes is the stale entry of the
\* updated code: no step of an Update removes an entry that points at
\* another code which still maps to the old URL.
C30_UpdateKeepsAliasEntry ==
  [][\A p \in Procs : \A k \in DOMAIN SHORT_URLS \ DOMAIN SHORT_URLS' :
       pc[p] = "update_write" =>
         ~(/\ SHORT_URLS[k] # req[p].code
           /\ MapGet(SHORT_URLS, CodeKey(SHORT_URLS[k])) = req[p].oldUrl)]_vars

\* An Update has removed the stale reverse entry of its own code.
C30_StaleEntryRemoved ==
  /\ out.kind = "update"
  /\ out.status = 200
  /\ out.updated = TRUE
  /\ out.found = UrlA
  /\ HashKey(hashUrl(UrlA)) \notin DOMAIN SHORT_URLS
  /\ \A k \in DOMAIN SHORT_URLS : IsCodeKey(k) => SHORT_URLS[k] # UrlA

\* C31: reverse-index consistency.  When requests arrive one after another
\* and no write fails, between requests every entry hash(u) -> c names a
\* code c that has a mapping, and that mapping is c -> u.
C31_ReverseIndexConsistent ==
  Idle => \A key \in DOMAIN SHORT_URLS :
            IsHashKey(key) =>
              LET c == SHORT_URLS[key]
              IN  /\ CodeKey(c) \in DOMAIN SHORT_URLS
                  /\ HashKey(hashUrl(SHORT_URLS[CodeKey(c)])) = key

\* A Create has minted a code and an Update has moved it to the other URL:
\* the store holds two links and two reverse entries.
C31_Witness ==
  /\ Idle
  /\ Len(mints) > 0
  /\ \E u \in updates : u.code = mints[1][1] /\ MapGet(SHORT_URLS, CodeKey(u.code)) = u.new
  /\ Cardinality({key \in DOMAIN SHORT_URLS : IsHashKey(key)}) = 2

\* The reverse entries that point at code.
EntriesOf(code) == {key \in DOMAIN SHORT_URLS : IsHashKey(key) /\ SHORT_URLS[key] = code}

\* C32: two Updates of one code that overlapped (both read the same stored
\* URL) and moved it to different URLs have completed: the code maps to one
\* of the two URLs, and the reverse entries that point at the code are
\* exactly the entry of that URL.
C32_OverlappingUpdatesConsistent ==
  Idle =>
    \A u1, u2 \in updates :
      (u1.code = u2.code /\ u1.old = u2.old /\ u1.new # u2.new) =>
        LET url == MapGet(SHORT_URLS, CodeKey(u1.code))
        IN  /\ url \in {u1.new, u2.new}
            /\ EntriesOf(u1.code) = {HashKey(hashUrl(url))}

\* Two overlapping Updates of one code have completed: the code maps to the
\* URL of one of them and the reverse entry of that URL points at the code.
C32_BothCompleted ==
  /\ Idle
  /\ \E u1, u2 \in updates :
        /\ u1.code = u2.code /\ u1.old = u2.old /\ u1.new # u2.new
        /\ MapGet(SHORT_URLS, CodeKey(u1.code)) = u1.new
        /\ HashKey(hashUrl(u1.new)) \in EntriesOf(u1.code)

\* Aggregate b holds every key of aggregate a, with a count that is not
\* lower.
NotLowered(a, b) ==
  /\ \A k \in DOMAIN a.flat : k \in DOMAIN b.flat /\ b.flat[k] >= a.flat[k]
  /\ \A g \in DOMAIN a.nested :
        /\ g \in DOMAIN b.nested
        /\ \A k \in DOMAIN a.nested[g] :
              /\ k \in DOMAIN b.nested[g]
              /\ (a.nested[g][k].number /\ b.nested[g][k].number)
                    => b.nested[g][k].value >= a.nested[g][k].value

\* C33: every step other than a Delete answered 200 leaves each stored
\* counter in place with a count that is not lower, also when the read of
\* the aggregate inside a Post fails.
C33_PostNeverLowers ==
  [][~(out'.kind = "telemetry_delete" /\ Answers(out', {200}))
       => NotLowered(StoredCounters, CountersOf(TELEMETRY'))]_vars

\* A Post has raised a counter that was stored before it.
C33_Raised ==
  /\ out.kind = "telemetry_post"
  /\ out.status = 200
  /\ "saveClicks" \in DOMAIN out.before.flat
  /\ StoredCounters.flat["saveClicks"] > out.before.flat["saveClicks"]

\* C34: overlapping Posts.  When every Post that arrived has been answered
\* and no Delete has run, each allow-listed flat counter stored equals the
\* sum of the deltas that the Posts answered 200 carried for it.
C34_NoIncrementLost ==
  Idle => \A k \in ALLOWED_FLAT_KEYS : Count(StoredCounters.flat, k) = Count(posted, k)

\* Two Posts that overlapped have both been answered 200, and the aggregate
\* holds the deltas of both.
C34_BothReflected ==
  /\ Idle
  /\ nreq = 2
  /\ Posted
  /\ out.payload = UnitsBody
  /\ Count(out.before.flat, "saveClicks") = 2
  /\ Count(StoredCounters.flat, "saveClicks") = 2
  /\ Count(StoredCounters.flat, "units_days") = 1

\* The group of aggregate c, empty when c has none.
StoredGroup(c, g) == IF g \in DOMAIN c.nested THEN c.nested[g] ELSE EmptyMap

\* C35: the cap of a nested group.  No allow-listed group ever holds more
\* than 100 keys; and when a Post is answered 200, a key of its payload
\* that the group held before has its count raised by the delta, also when
\* the group is full, while a key the group did not hold is not stored
\* when the group held 100 keys.
C35_NestedKeyCap ==
  [][/\ \A g \in ALLOWED_NESTED_GROUPS :
          Cardinality(DOMAIN StoredGroup(CountersOf(TELEMETRY'), g)) <= 100
     /\ (out'.kind = "telemetry_post" /\ Answers(out', {200})) =>
          \A g \in GroupsOf(out'.payload) \cap ALLOWED_NESTED_GROUPS :
            LET old == StoredGroup(out'.before, g)
                new == StoredGroup(CountersOf(TELEMETRY'), g)
                entries == GroupEntries(out'.payload, g)
            IN  \A i \in 1..Len(entries) :
                  LET e == entries[i]
                  IN  (isSafeNestedMetricKey(e.key) /\ AcceptedDelta(e.delta)) =>
                        IF e.key \in DOMAIN old
                        THEN old[e.key].number =>
                               new[e.key] = Num(old[e.key].value + e.delta.value)
                        ELSE Cardinality(DOMAIN old) >= 100 => e.key \notin DOMAIN new]_vars

\* A Post for a new key and a stored key has been answered on a full
\* group: the new key is dropped and the stored key has accumulated.
C35_Witness ==
  /\ Posted
  /\ out.payload = ThemePost(<<Entry("light", Delta(1)), Entry(StoredKey(1), Delta(1))>>)
  /\ Cardinality(DOMAIN StoredGroup(out.before, "theme")) = 100
  /\ "light" \notin DOMAIN StoredGroup(out.before, "theme")
  /\ "light" \notin DOMAIN StoredGroup(StoredCounters, "theme")
  /\ StoredGroup(StoredCounters, "theme")[StoredKey(1)].value
        = StoredGroup(out.before, "theme")[StoredKey(1)].value + 1

\* The ceilings of the three buckets.
Ceiling(bucket) ==
  CASE bucket = "shortenCreate" -> 5
    [] bucket = "shortenUpdate" -> 20
    [] bucket = "telemetry" -> 30

\* The window of check i of a key's checks with the number of its checks
\* that passed: start and n as WindowOf, passed the checks of the window up
\* to check i that the limiter let through.
RECURSIVE Tally(_, _)
Tally(log, i) ==
  LET one == IF log[i].limited THEN 0 ELSE 1
  IN  IF i = 1 THEN [start |-> log[1].at, n |-> 1, passed |-> one]
      ELSE LET w == Tally(log, i - 1)
           IN  IF log[i].at - w.start > RATE_LIMIT_WINDOW_MS
               THEN [start |-> log[i].at, n |-> 1, passed |-> one]
               ELSE [start |-> w.start, n |-> w.n + 1, passed |-> w.passed + one]

\* C36: rate-limit buckets are independent and bounded.  The ceilings are 5
\* (create), 20 (update) and 30 (telemetry); every (bucket, client) the
\* limiter has checked has an entry of its own in the table whose window and
\* count are those of its own checks alone; in a window of a (bucket, client)
\* at most ceiling checks have passed; and a check is rejected only when the
\* checks of its own (bucket, client) in its own window exceed the ceiling,
\* whatever the other buckets and clients have spent.
C36_BucketsIndependent ==
  /\ \A bucket \in DOMAIN RATE_LIMITS : RATE_LIMITS[bucket] = Ceiling(bucket)
  /\ \A key \in DOMAIN checks :
       LET log == checks[key]
           N == Ceiling(BucketOf(key))
           w == Tally(log, Len(log))
       IN  /\ key \in DOMAIN rateLimitMap
           /\ rateLimitMap[key].windowStart = w.start
           /\ rateLimitMap[key].count = w.n
           /\ w.passed <= N
           /\ log[Len(log)].limited => w.n > N

\* ClientA has exhausted its create bucket and was rejected; in the same
\* window ClientB's create passes, and ClientA's update bucket has passed
\* a check of its own.
C36_Witness ==
  LET a == "shortenCreate:" \o ClientA
      b == "shortenCreate:" \o ClientB
      u == "shortenUpdate:" \o ClientA
  IN  /\ {a, b, u} \subseteq DOMAIN checks
      /\ checks[a][Len(checks[a])].limited
      /\ checks[a][Len(checks[a])].at = now
      /\ checks[b][Len(checks[b])].at = now
      /\ checks[u][Len(checks[u])].at = now
      /\ ~checks[u][Len(checks[u])].limited
      /\ Len(checks[u]) > RATE_LIMITS["shortenUpdate"] - 2
      /\ out.kind = "create"
      /\ out.status # 429

\* C37: a browser navigation to GET /s/<code> for a known code reads the
\* URL stored for the code and leaves the edge cache and the cache writes
\* in flight as they are; the step that answers it leaves them alone as
\* well and answers either the markup (200) whose x-resolved-url tag carries
\* the URL now stored for the code, escaped for the attribute, or, the
\* fetch of the markup having failed, a redirect (302) to that URL.
C37_BrowserNavigation ==
  [][\A p \in Procs :
       /\ (pc[p] = "idle" /\ pc'[p] = "redirect_fetch") =>
             /\ req'[p].url = MapGet(SHORT_URLS, CodeKey(req'[p].code))
             /\ cache' = cache
             /\ background' = background
       /\ (pc[p] = "redirect_fetch" /\ pc'[p] = "idle") =>
             LET stored == MapGet(SHORT_URLS', CodeKey(req[p].code))
             IN  /\ cache' = cache
                 /\ background' = background
                 /\ out'.kind = "redirect"
                 /\ \/ out'.status = 200 /\ out'.hint = EscapeAttr(stored)
                    \/ out'.status = 302 /\ out'.location = stored]_vars

\* A browser navigation is served the markup with the URL an Update has
\* just stored for the code, while the edge cache holds the redirect to the
\* URL the code had before.
C37_Witness ==
  /\ out.kind = "redirect"
  /\ out.status = 200
  /\ AcceptsHtml([Accept |-> out.accept])
  /\ out.asked.code = AmberCode
  /\ MapGet(SHORT_URLS, CodeKey(AmberCode)) = UrlB
  /\ out.hint = EscapeAttr(UrlB)
  /\ \E u \in updates : u.code = AmberCode
  /\ ShortPath(AmberCode) \in DOMAIN cache
  /\ cache[ShortPath(AmberCode)].location # UrlB

\* C38: the cache write of a redirect is detached from the response.  The
\* step that answers a cache miss for a known code answers the 302 redirect
\* to the URL stored for the code while its cache write is still pending and
\* the cache is as it was; a step in which a pending cache write settles,
\* stored or failed, answers no request and changes no request in progress
\* and no stored link.
C38_CacheWriteDetached ==
  [][/\ \A p \in Procs :
          LET stored == MapGet(SHORT_URLS, CodeKey(req[p].code))
          IN  (pc[p] = "redirect_get" /\ pc'[p] = "idle" /\ stored # None) =>
                /\ out'.kind = "redirect"
                /\ out'.status = 302
                /\ out'.location = stored
                /\ cache' = cache
                /\ \E b \in background' :
                      /\ b.key = ShortPath(req[p].code)
                      /\ b.response.location = stored
     /\ (background' # background /\ background' \subseteq background) =>
          /\ pc' = pc
          /\ req' = req
          /\ SHORT_URLS' = SHORT_URLS
          /\ out'.kind = None
          /\ cache' # cache =>
               \E b \in background \ background' : cache' = MapPut(cache, b.key, b.response)]_vars

\* A cache miss has been answered with the redirect to the stored URL; the
\* cache write of that redirect is pending and the cache has no entry for
\* the code, although this is not the first request for it.
C38_Witness ==
  /\ out.kind = "redirect"
  /\ out.status = 302
  /\ ~AcceptsHtml([Accept |-> out.accept])
  /\ nreq >= 2
  /\ out.location = MapGet(SHORT_URLS, CodeKey(out.asked.code))
  /\ ShortPath(out.asked.code) \notin DOMAIN cache
  /\ \E b \in background :
        b.key = ShortPath(out.asked.code) /\ b.response.location = out.location

\* C39: every GET /s/<code> request ends with a response of the worker: a
\* request for a short link is never ended by an error that leaves the
\* worker, and a request whose read of the namespace or lookup in the cache
\* failed for good is answered by the 302 redirect to the home of the
\* service.
C39_RedirectAlwaysAnswers ==
  out.kind = "redirect" =>
    /\ out.status \in {200, 302}
    /\ out.exhausted => out.status = 302 /\ out.location = DOMAIN_

\* The first read of a browser navigation failed, the second returned the
\* stored URL and the handler goes on to fetch the markup.
C39_RetrySucceeded ==
  /\ pc[1] = "redirect_fetch"
  /\ req[1].tries = 1
  /\ req[1].url = MapGet(SHORT_URLS, CodeKey(req[1].code))

\* C40: pruning removes only expired entries.  In a step in which the
\* limiter answers a check, every entry of the table whose window is live
\* stays in the table with its window, and with its count unless it is the
\* entry of the check, whose count is one more; every entry that leaves the
\* table has an expired window; and the entry of the check is in the table
\* afterwards and the check is rejected exactly when its count exceeds the
\* ceiling, which is exactly when the checks of its client in its window
\* exceed it.
C40_PruneOnlyExpired ==
  [][\A key \in DOMAIN checks' :
       (key \notin DOMAIN checks \/ checks'[key] # checks[key]) =>
          LET log == checks'[key]
              last == log[Len(log)]
              N == RATE_LIMITS[BucketOf(key)]
              Live(k) == ~(now - rateLimitMap[k].windowStart > RATE_LIMIT_WINDOW_MS)
          IN  /\ \A k \in DOMAIN rateLimitMap :
                   Live(k) =>
                     /\ k \in DOMAIN rateLimitMap'
                     /\ rateLimitMap'[k].windowStart = rateLimitMap[k].windowStart
                     /\ rateLimitMap'[k].count =
                          rateLimitMap[k].count + (IF k = key THEN 1 ELSE 0)
              /\ \A k \in DOMAIN rateLimitMap \ DOMAIN rateLimitMap' : ~Live(k)
              /\ key \in DOMAIN rateLimitMap'
              /\ last.limited <=> rateLimitMap'[key].count > N
              /\ last.limited <=> Tally(log, Len(log)).n > N]_vars

\* The table has been pruned of the expired entries of the crowd while the
\* window of ClientA, who is over the ceiling, was live: the entry of
\* ClientA is in the table with its window and ClientA is still rejected.
C40_Witness ==
  LET a == "shortenCreate:" \o ClientA
  IN  /\ DOMAIN rateLimitMap \cap CrowdKeys = {}
      /\ a \in DOMAIN rateLimitMap
      /\ rateLimitMap[a].windowStart = 1
      /\ now = 1 + RATE_LIMIT_WINDOW_MS
      /\ checks[a][Len(checks[a])].at = now
      /\ checks[a][Len(checks[a])].limited
      /\ out.kind = "create"
      /\ out.status = 429

====
